---------------------------- MODULE Spec2Model ----------------------------
(***************************************************************************)
(* A model of the deterministic world-generation core of map-game:         *)
(* terrain thresholds, terrain sampling and classification, elevation,     *)
(* the seeded resource sampler and the hex-grid geometry.                  *)
(*                                                                         *)
(* JavaScript numbers are IEEE-754 binary64 values.  The model computes    *)
(* with them exactly: a finite double is sign * m * 2^e with a 53-bit      *)
(* mantissa m held as a little-endian sequence of 15-bit limbs, and every  *)
(* arithmetic operation rounds its exact result to nearest, ties to even.  *)
(* No value of the model comes near the subnormal range or the overflow    *)
(* threshold, so the exponent is left unbounded.                           *)
(***************************************************************************)
EXTENDS Integers, Sequences, FiniteSets, TLC

(***************************************************************************)
(* Natural numbers of arbitrary size: little-endian limbs, no leading      *)
(* zero limb, zero is the empty sequence.                                  *)
(***************************************************************************)
LimbBase == 2^15

Max(a, b) == IF a > b THEN a ELSE b

Min(a, b) == IF a < b THEN a ELSE b

Limb(a, i) == IF i <= Len(a) THEN a[i] ELSE 0

RECURSIVE BTrim(_)
BTrim(a) ==
  IF a = <<>> THEN a
  ELSE IF a[Len(a)] = 0 THEN BTrim(SubSeq(a, 1, Len(a) - 1)) ELSE a

RECURSIVE BFromInt(_)
BFromInt(n) ==
  IF n = 0 THEN <<>> ELSE <<n % LimbBase>> \o BFromInt(n \div LimbBase)

RECURSIVE BAddC(_, _, _, _)
BAddC(a, b, i, c) ==
  IF i > Len(a) /\ i > Len(b)
  THEN IF c = 0 THEN <<>> ELSE <<c>>
  ELSE LET s == Limb(a, i) + Limb(b, i) + c
       IN  <<s % LimbBase>> \o BAddC(a, b, i + 1, s \div LimbBase)

BAdd(a, b) == BAddC(a, b, 1, 0)

\* a - b for a >= b
RECURSIVE BSubC(_, _, _, _)
BSubC(a, b, i, c) ==
  IF i > Len(a) THEN <<>>
  ELSE LET s == a[i] - Limb(b, i) - c
       IN  IF s < 0 THEN <<s + LimbBase>> \o BSubC(a, b, i + 1, 1)
           ELSE <<s>> \o BSubC(a, b, i + 1, 0)

BSub(a, b) == BTrim(BSubC(a, b, 1, 0))

\* -1, 0, 1 as a < b, a = b, a > b; the limbs from i down decide
RECURSIVE BCmpFrom(_, _, _)
BCmpFrom(a, b, i) ==
  IF i = 0 THEN 0
  ELSE IF a[i] < b[i] THEN -1
  ELSE IF a[i] > b[i] THEN 1
  ELSE BCmpFrom(a, b, i - 1)

BCmp(a, b) ==
  IF Len(a) < Len(b) THEN -1
  ELSE IF Len(a) > Len(b) THEN 1
  ELSE BCmpFrom(a, b, Len(a))

\* a * k + c for 0 <= k, c < LimbBase
RECURSIVE BMulSmallC(_, _, _, _)
BMulSmallC(a, k, i, c) ==
  IF i > Len(a)
  THEN IF c = 0 THEN <<>> ELSE <<c>>
  ELSE LET s == a[i] * k + c
       IN  <<s % LimbBase>> \o BMulSmallC(a, k, i + 1, s \div LimbBase)

BMulSmall(a, k) == BTrim(BMulSmallC(a, k, 1, 0))

\* rest * LimbBase
BShiftLimb(rest) == IF rest = <<>> THEN <<>> ELSE <<0>> \o rest

RECURSIVE BMul(_, _)
BMul(a, b) ==
  IF a = <<>> \/ b = <<>> THEN <<>>
  ELSE BAdd(BMulSmall(a, Head(b)), BShiftLimb(BMul(a, Tail(b))))

RECURSIVE Zeros(_)
Zeros(n) == IF n = 0 THEN <<>> ELSE <<0>> \o Zeros(n - 1)

\* a * 2^k
BShl(a, k) ==
  IF a = <<>> THEN <<>>
  ELSE Zeros(k \div 15) \o BMulSmall(a, 2^(k % 15))

\* floor(a / d) for 0 < d < LimbBase, from the top limb down
RECURSIVE BDivSmallFrom(_, _, _, _)
BDivSmallFrom(a, d, i, rem) ==
  IF i = 0 THEN <<>>
  ELSE LET cur == rem * LimbBase + a[i]
       IN  BDivSmallFrom(a, d, i - 1, cur % d) \o <<cur \div d>>

\* a mod d for 0 < d < LimbBase
RECURSIVE BModSmallFrom(_, _, _, _)
BModSmallFrom(a, d, i, rem) ==
  IF i = 0 THEN rem
  ELSE BModSmallFrom(a, d, i - 1, (rem * LimbBase + a[i]) % d)

\* floor(a / 2^k)
BShrBits(hi, k) == BTrim(BDivSmallFrom(hi, 2^k, Len(hi), 0))

BShr(a, k) ==
  IF k \div 15 >= Len(a) THEN <<>>
  ELSE BShrBits(SubSeq(a, (k \div 15) + 1, Len(a)), k % 15)

\* a mod 2^k = 0
BLowZero(a, k) ==
  /\ \A i \in 1..(k \div 15) : Limb(a, i) = 0
  /\ Limb(a, (k \div 15) + 1) % (2^(k % 15)) = 0

\* bit k (from 0) of a
BBit(a, k) == (Limb(a, (k \div 15) + 1) \div (2^(k % 15))) % 2

RECURSIVE IntBitLen(_)
IntBitLen(n) == IF n = 0 THEN 0 ELSE 1 + IntBitLen(n \div 2)

BBitLen(a) == IF a = <<>> THEN 0 ELSE 15 * (Len(a) - 1) + IntBitLen(a[Len(a)])

\* Long division by limbs (Knuth's algorithm D).  The divisor d has its top
\* limb at least LimbBase / 2 and the running remainder r is below
\* d * LimbBase, so the trial digit from the top limbs is at most two above
\* the quotient digit.
BDivTrial(r, d) ==
  (Limb(r, Len(d) + 1) * LimbBase + Limb(r, Len(d))) \div d[Len(d)]

\* the largest t at or below the trial digit with d * t <= r
RECURSIVE BDivDigit(_, _, _)
BDivDigit(r, d, t) ==
  IF BCmp(BMulSmall(d, t), r) > 0 THEN BDivDigit(r, d, t - 1) ELSE t

\* digit t joins the quotient below its earlier digits; the remainder moves
\* up one limb
BDivPut(st, d, t) ==
  [q |-> <<t>> \o st.q,
   r |-> BShiftLimb(BSub(st.r, BMulSmall(d, t)))]

\* the next digit; it is 0 once the remainder is 0
BDivLimb(st, d) ==
  IF st.r = <<>> THEN [q |-> <<0>> \o st.q, r |-> <<>>]
  ELSE BDivPut(st, d, BDivDigit(st.r, d, Min(LimbBase - 1, BDivTrial(st.r, d))))

\* k digits of a / d for a < d * LimbBase: q = floor(a * LimbBase^(k-1) / d)
\* and r = (a * LimbBase^(k-1) mod d) * LimbBase
RECURSIVE BDivLimbs(_, _, _)
BDivLimbs(a, d, k) ==
  IF k = 0 THEN [q |-> <<>>, r |-> a] ELSE BDivLimb(BDivLimbs(a, d, k - 1), d)

\* 2 * q + 1 when sticky and 2 * q otherwise
BWithSticky(q, sticky) == BTrim(BMulSmallC(q, 2, 1, IF sticky THEN 1 ELSE 0))

(***************************************************************************)
(* IEEE-754 binary64.  cls is "fin", "inf" or "nan"; a finite non-zero     *)
(* value has 2^52 <= m < 2^53; a zero has m = <<>> and e = 0.              *)
(***************************************************************************)
DNaN == [cls |-> "nan", neg |-> FALSE, m |-> <<>>, e |-> 0]

DInf(neg) == [cls |-> "inf", neg |-> neg, m |-> <<>>, e |-> 0]

DZero(neg) == [cls |-> "fin", neg |-> neg, m |-> <<>>, e |-> 0]

DFin(neg, m, e) == [cls |-> "fin", neg |-> neg, m |-> m, e |-> e]

DIsNaN(a) == a.cls = "nan"

DIsFinite(a) == a.cls = "fin"

DIsZero(a) == a.cls = "fin" /\ a.m = <<>>

\* q1 is the rounded mantissa: 54 bits mean it has reached 2^53
DRoundCarry(neg, q1, e) ==
  IF BBitLen(q1) = 54 THEN DFin(neg, BShr(q1, 1), e + 1) ELSE DFin(neg, q1, e)

\* M = q * 2^s + rest rounds up: rest above half, or half and q odd
DRoundUp(M, s, q) ==
  /\ BBit(M, s - 1) = 1
  /\ (~BLowZero(M, s - 1) \/ BBit(q, 0) = 1)

DRoundShift(neg, M, e, s, q) ==
  DRoundCarry(neg, IF DRoundUp(M, s, q) THEN BAdd(q, <<1>>) ELSE q, e + s)

DRoundLen(neg, M, e, L) ==
  IF L = 0 THEN DZero(neg)
  ELSE IF L <= 53 THEN DFin(neg, BShl(M, 53 - L), e - (53 - L))
  ELSE DRoundShift(neg, M, e, L - 53, BShr(M, L - 53))

\* the exact value (-1)^neg * M * 2^e rounded to nearest, ties to even
DRound(neg, M, e) == DRoundLen(neg, M, e, BBitLen(M))

DFromInt(n) == DRound(n < 0, BFromInt(IF n < 0 THEN -n ELSE n), 0)

DNeg(a) == IF DIsNaN(a) THEN a ELSE [a EXCEPT !.neg = ~a.neg]

DAbs(a) == IF DIsNaN(a) THEN a ELSE [a EXCEPT !.neg = FALSE]

\* hi.m * 2^d and lo.m, the mantissas at the exponent of lo
DAddAligned(hi, lo, Mh, c) ==
  IF hi.neg = lo.neg THEN DRound(hi.neg, BAdd(Mh, lo.m), lo.e)
  ELSE IF c = 0 THEN DZero(FALSE)
  ELSE IF c > 0 THEN DRound(hi.neg, BSub(Mh, lo.m), lo.e)
  ELSE DRound(lo.neg, BSub(lo.m, Mh), lo.e)

DAddShifted(hi, lo, Mh) == DAddAligned(hi, lo, Mh, BCmp(Mh, lo.m))

\* the sum of two finite non-zero values, hi the one with the larger
\* exponent; beyond 60 binary places lo cannot change the rounded result
DAddFinite(hi, lo) ==
  IF hi.e - lo.e > 60 THEN hi ELSE DAddShifted(hi, lo, BShl(hi.m, hi.e - lo.e))

DAdd(a, b) ==
  IF DIsNaN(a) \/ DIsNaN(b) THEN DNaN
  ELSE IF a.cls = "inf"
  THEN IF b.cls = "inf" /\ a.neg # b.neg THEN DNaN ELSE a
  ELSE IF b.cls = "inf" THEN b
  ELSE IF DIsZero(a) /\ DIsZero(b) THEN DZero(a.neg /\ b.neg)
  ELSE IF DIsZero(a) THEN b
  ELSE IF DIsZero(b) THEN a
  ELSE IF a.e >= b.e THEN DAddFinite(a, b) ELSE DAddFinite(b, a)

DSub(a, b) == DAdd(a, DNeg(b))

DMul(a, b) ==
  IF DIsNaN(a) \/ DIsNaN(b) THEN DNaN
  ELSE IF a.cls = "inf" \/ b.cls = "inf"
  THEN IF DIsZero(a) \/ DIsZero(b) THEN DNaN ELSE DInf(a.neg # b.neg)
  ELSE IF DIsZero(a) \/ DIsZero(b) THEN DZero(a.neg # b.neg)
  ELSE DRound(a.neg # b.neg, BMul(a.m, b.m), a.e + b.e)

\* the divisor is d * 2^(b.e + 38) with d of one limb: short division of
\* num = a.m * 2^30
DDivShort(a, b, d, num) ==
  DRound(a.neg # b.neg,
         BWithSticky(BTrim(BDivSmallFrom(num, d, Len(num), 0)),
                     BModSmallFrom(num, d, Len(num), 0) # 0),
         a.e - b.e - 38 - 30 - 1)

\* qr holds floor(a.m * 2^60 / b.m) and the remainder
DDivLong(a, b, qr) ==
  DRound(a.neg # b.neg, BWithSticky(BTrim(qr.q), qr.r # <<>>), a.e - b.e - 61)

DDiv(a, b) ==
  IF DIsNaN(a) \/ DIsNaN(b) THEN DNaN
  ELSE IF a.cls = "inf"
  THEN IF b.cls = "inf" THEN DNaN ELSE DInf(a.neg # b.neg)
  ELSE IF b.cls = "inf" THEN DZero(a.neg # b.neg)
  ELSE IF DIsZero(b)
  THEN IF DIsZero(a) THEN DNaN ELSE DInf(a.neg # b.neg)
  ELSE IF DIsZero(a) THEN DZero(a.neg # b.neg)
  ELSE IF BLowZero(b.m, 38) THEN DDivShort(a, b, BShr(b.m, 38)[1], <<0, 0>> \o a.m)
  ELSE DDivLong(a, b, BDivLimbs(BMulSmall(a.m, 2^7), BMulSmall(b.m, 2^7), 5))

\* -1, 0, 1 for the magnitudes of two values that are not NaN
DCmpMag(a, b) ==
  IF a.cls = "inf" THEN (IF b.cls = "inf" THEN 0 ELSE 1)
  ELSE IF b.cls = "inf" THEN -1
  ELSE IF DIsZero(a) THEN (IF DIsZero(b) THEN 0 ELSE -1)
  ELSE IF DIsZero(b) THEN 1
  ELSE IF a.e < b.e THEN -1
  ELSE IF a.e > b.e THEN 1
  ELSE BCmp(a.m, b.m)

\* -1, 0, 1 for two values that are not NaN (the two zeros are equal)
DCmp(a, b) ==
  IF DIsZero(a) /\ DIsZero(b) THEN 0
  ELSE IF a.neg /\ ~b.neg THEN -1
  ELSE IF ~a.neg /\ b.neg THEN 1
  ELSE IF a.neg THEN DCmpMag(b, a) ELSE DCmpMag(a, b)

DLt(a, b) == ~DIsNaN(a) /\ ~DIsNaN(b) /\ DCmp(a, b) < 0

DLe(a, b) == ~DIsNaN(a) /\ ~DIsNaN(b) /\ DCmp(a, b) <= 0

DGt(a, b) == DLt(b, a)

DGe(a, b) == DLe(b, a)

\* JavaScript's === on numbers
DEq(a, b) == ~DIsNaN(a) /\ ~DIsNaN(b) /\ DCmp(a, b) = 0

DPick(first, a, b) == IF first THEN a ELSE b

\* Math.min and Math.max of two numbers
DMin(a, b) ==
  IF DIsNaN(a) \/ DIsNaN(b) THEN DNaN
  ELSE DPick(DLt(a, b) \/ (DEq(a, b) /\ a.neg), a, b)

DMax(a, b) ==
  IF DIsNaN(a) \/ DIsNaN(b) THEN DNaN
  ELSE DPick(DGt(a, b) \/ (DEq(a, b) /\ ~a.neg), a, b)

\* the floor of a finite value with a fraction part, q = floor(|a|)
DFloorFrac(a, q) ==
  IF ~a.neg THEN DRound(FALSE, q, 0)
  ELSE IF BLowZero(a.m, -a.e) THEN DRound(TRUE, q, 0)
  ELSE DRound(TRUE, BAdd(q, <<1>>), 0)

\* Math.floor
DFloor(a) ==
  IF a.cls # "fin" \/ DIsZero(a) \/ a.e >= 0 THEN a
  ELSE DFloorFrac(a, BShr(a.m, -a.e))

\* a decimal literal n/d of the source (n and d exact as doubles)
DLit(n, d) == DDiv(DFromInt(n), DFromInt(d))

\* the next double above and below a finite positive value
DSucc(a) == DRound(a.neg, BAdd(a.m, <<1>>), a.e)

DPred(a) ==
  IF a.m = BShl(<<1>>, 52) THEN DRound(a.neg, BSub(BShl(a.m, 1), <<1>>), a.e - 1)
  ELSE DRound(a.neg, BSub(a.m, <<1>>), a.e)

(***************************************************************************)
(* Terrain thresholds, sampling, classification and elevation.             *)
(***************************************************************************)
TerrainType ==
  {"DEEP_WATER", "WATER", "SAND", "GRASS", "FOREST", "MOUNTAIN", "SNOW"}

D0 == DFromInt(0)

D1 == DFromInt(1)

DEFAULT_TERRAIN_WEIGHTS ==
  [DEEP_WATER |-> 20, WATER |-> 20, SAND |-> 15, GRASS |-> 25,
   FOREST |-> 15, MOUNTAIN |-> 4, SNOW |-> 1]

\* Object.values(weights).reduce((a, b) => a + b, 0)
WeightTotal(weights) ==
  weights.DEEP_WATER + weights.WATER + weights.SAND + weights.GRASS
    + weights.FOREST + weights.MOUNTAIN + weights.SNOW

\* the fallback of calculateThresholds
FallbackThresholds ==
  [deepWater |-> DLit(3, 10), water |-> DLit(4, 10), sand |-> DLit(45, 100),
   mountainStart |-> DLit(85, 100), snowStart |-> DLit(92, 100),
   moistureBias |-> D0]

\* moistureBias of calculateThresholds for a positive landTotal
WeightedBias(pSand, pGrass, pForest, landTotal) ==
  DMul(DSub(DDiv(DAdd(DAdd(DMul(pSand, DLit(2, 10)), DMul(pGrass, DLit(5, 10))),
                      DMul(pForest, DLit(8, 10))),
                 landTotal),
            DLit(5, 10)),
       DLit(15, 10))

BiasOf(pSand, pGrass, pForest, landTotal) ==
  IF DGt(landTotal, D0) THEN WeightedBias(pSand, pGrass, pForest, landTotal)
  ELSE D0

\* moistureBias of calculateThresholds
MoistureBias(pSand, pGrass, pForest) ==
  BiasOf(pSand, pGrass, pForest, DAdd(DAdd(pSand, pGrass), pForest))

\* the cutoffs from water = pDeep + pWater and snowStart = 1.0 - pSnow
Cutoffs(pDeep, water, pSand, pMount, snowStart, moistureBias) ==
  [deepWater |-> pDeep,
   water |-> water,
   sand |-> DAdd(water, DMul(pSand, DLit(4, 10))),
   mountainStart |-> DSub(snowStart, pMount),
   snowStart |-> snowStart,
   moistureBias |-> moistureBias]

\* the cutoffs from the seven percentages
PercentThresholds(pDeep, pWater, pSand, pGrass, pForest, pMount, pSnow) ==
  Cutoffs(pDeep, DAdd(pDeep, pWater), pSand, pMount, DSub(D1, pSnow),
          MoistureBias(pSand, pGrass, pForest))

\* calculateThresholds for a non-zero total
WeightedThresholds(weights, total) ==
  PercentThresholds(DDiv(DFromInt(weights.DEEP_WATER), total),
                    DDiv(DFromInt(weights.WATER), total),
                    DDiv(DFromInt(weights.SAND), total),
                    DDiv(DFromInt(weights.GRASS), total),
                    DDiv(DFromInt(weights.FOREST), total),
                    DDiv(DFromInt(weights.MOUNTAIN), total),
                    DDiv(DFromInt(weights.SNOW), total))

\* calculateThresholds without its guard on a zero total
ThresholdsUnguarded(weights, total) == WeightedThresholds(weights, total)

ThresholdsForTotal(weights, total) ==
  IF DEq(total, D0) THEN FallbackThresholds
  ELSE WeightedThresholds(weights, total)

calculateThresholds(weights) ==
  ThresholdsForTotal(weights, DFromInt(WeightTotal(weights)))

(***************************************************************************)
(* getTerrainData.  The four noise channels of a hex are its inputs: n is  *)
(* [height, river, moisture, island], where height is the fbm value after  *)
(* Math.pow(height, 1.2) and the others are the raw fbm / valueNoise       *)
(* values; each lies in [0, 1].  getTerrainData, getTerrain and            *)
(* getElevation are given from the point where the thresholds of the       *)
(* settings, respectively the sample of the hex, have been obtained.       *)
(***************************************************************************)
riverWidth == DLit(25, 1000)

\* the river test of getTerrainData on the base height
IsRiver(n, thresholds) ==
  /\ DGt(n.height, thresholds.water)
  /\ DLt(n.height, thresholds.mountainStart)
  /\ DLt(DAbs(DSub(n.river, DLit(5, 10))), riverWidth)

\* the height after river carving
CarvedHeight(n, thresholds, isRiver) ==
  IF isRiver THEN DSub(thresholds.water, DLit(2, 100)) ELSE n.height

\* the height after island promotion
IslandHeight(height, n, thresholds) ==
  IF DLt(height, thresholds.deepWater) /\ DGt(n.island, DLit(85, 100))
  THEN thresholds.sand
  ELSE height

\* the moisture with the bias applied
BiasedMoisture(n, thresholds) ==
  DMax(D0, DMin(D1, DAdd(n.moisture, thresholds.moistureBias)))

TerrainDataRiver(n, thresholds, isRiver) ==
  [height |-> IslandHeight(CarvedHeight(n, thresholds, isRiver), n, thresholds),
   moisture |-> BiasedMoisture(n, thresholds),
   isRiver |-> isRiver,
   thresholds |-> thresholds]

\* getTerrainData from thresholds = calculateThresholds(settings.weights)
getTerrainData(n, thresholds) ==
  TerrainDataRiver(n, thresholds, IsRiver(n, thresholds))

\* a classification that tests the water cutoff before the deep-water one
ClassifyWaterFirst(height, moisture, isRiver, thresholds) ==
  IF isRiver THEN "WATER"
  ELSE IF DLt(height, thresholds.water) THEN "WATER"
  ELSE IF DLt(height, thresholds.deepWater) THEN "DEEP_WATER"
  ELSE IF DLt(height, thresholds.sand) THEN "SAND"
  ELSE IF DGt(height, thresholds.mountainStart)
  THEN IF DGt(height, thresholds.snowStart) THEN "SNOW" ELSE "MOUNTAIN"
  ELSE IF DLt(moisture, DLit(35, 100)) THEN "SAND"
  ELSE IF DGt(moisture, DLit(65, 100)) THEN "FOREST"
  ELSE IF DGt(height, DMul(thresholds.mountainStart, DLit(8, 10))) THEN "FOREST"
  ELSE "GRASS"

\* the classification of getTerrain on a sample
Classify(height, moisture, isRiver, thresholds) ==
  IF isRiver THEN "WATER"
  ELSE IF DLt(height, thresholds.deepWater) THEN "DEEP_WATER"
  ELSE IF DLt(height, thresholds.water) THEN "WATER"
  ELSE IF DLt(height, thresholds.sand) THEN "SAND"
  ELSE IF DGt(height, thresholds.mountainStart)
  THEN IF DGt(height, thresholds.snowStart) THEN "SNOW" ELSE "MOUNTAIN"
  ELSE IF DLt(moisture, DLit(35, 100)) THEN "SAND"
  ELSE IF DGt(moisture, DLit(65, 100)) THEN "FOREST"
  ELSE IF DGt(height, DMul(thresholds.mountainStart, DLit(8, 10))) THEN "FOREST"
  ELSE "GRASS"

\* getTerrain from d = getTerrainData(q, r, settings)
getTerrain(d) == Classify(d.height, d.moisture, d.isRiver, d.thresholds)

\* the underwater value without the guard on a zero sea level
DepthElevationUnguarded(depthRatio, seaLevel) ==
  DFloor(DSub(DFromInt(-1000), DMul(depthRatio, DFromInt(4000))))

\* the value returned under water from depthRatio = 1 - (height / seaLevel)
DepthElevation(depthRatio, seaLevel) ==
  IF DEq(seaLevel, D0) THEN D0
  ELSE DFloor(DSub(DFromInt(-1000), DMul(depthRatio, DFromInt(4000))))

\* the underwater branch of getElevation
UnderwaterElevation(height, seaLevel) ==
  DepthElevation(DSub(D1, DDiv(height, seaLevel)), seaLevel)

\* Math.floor(Math.pow(landRatio, 2) * 8848); Math.pow(x, 2) is taken as x * x
RatioElevation(landRatio) ==
  DFloor(DMul(DMul(landRatio, landRatio), DFromInt(8848)))

\* the land value without the guard on a vanishing land range
RangeElevationUnguarded(height, seaLevel, landRange) ==
  RatioElevation(DDiv(DSub(height, seaLevel), landRange))

\* the value returned on land from landRange = 1 - seaLevel
RangeElevation(height, seaLevel, landRange) ==
  IF DLe(landRange, DLit(1, 1000)) THEN D0
  ELSE RatioElevation(DDiv(DSub(height, seaLevel), landRange))

\* the land branch of getElevation
LandElevation(height, seaLevel) ==
  RangeElevation(height, seaLevel, DSub(D1, seaLevel))

\* getElevation on a sample
ElevationOf(height, thresholds) ==
  IF DLt(height, thresholds.water)
  THEN UnderwaterElevation(height, thresholds.water)
  ELSE LandElevation(height, thresholds.water)

\* getElevation from d = getTerrainData(q, r, settings)
getElevation(d) == ElevationOf(d.height, d.thresholds)

(***************************************************************************)
(* getGlobalBiome.  An entry of GLOBAL_BIOMES_DATA is named by its id.     *)
(***************************************************************************)
GLOBAL_BIOMES_DATA ==
  <<"rainforest", "savanna", "grassland", "desert", "taiga", "tundra",
    "wetlands">>

\* GLOBAL_BIOMES_DATA[i] read with the index counted from 1
GlobalBiomeAtFromOne(i) ==
  IF i \in DOMAIN GLOBAL_BIOMES_DATA THEN GLOBAL_BIOMES_DATA[i]
  ELSE "undefined"

\* GLOBAL_BIOMES_DATA[i], the index counted from 0; undefined outside
GlobalBiomeAt(i) ==
  IF i + 1 \in DOMAIN GLOBAL_BIOMES_DATA THEN GLOBAL_BIOMES_DATA[i + 1]
  ELSE "undefined"

\* (height - thresholds.water) / (thresholds.mountainStart - thresholds.water)
RelativeHeight(height, thresholds) ==
  DDiv(DSub(height, thresholds.water),
       DSub(thresholds.mountainStart, thresholds.water))

\* the moisture and temperature branch, isHot = relativeHeight < 0.4
MoistureBiome(moisture, isHot) ==
  IF DGt(moisture, DLit(7, 10))
  THEN (IF isHot THEN GlobalBiomeAt(0) ELSE GlobalBiomeAt(4))
  ELSE IF DGt(moisture, DLit(4, 10))
  THEN (IF isHot THEN GlobalBiomeAt(1) ELSE GlobalBiomeAt(2))
  ELSE (IF isHot THEN GlobalBiomeAt(3) ELSE GlobalBiomeAt(2))

\* the classification without the river test: wetlands by height alone
GlobalBiomeOfHeight(height, moisture, isRiver, thresholds) ==
  IF DLt(height, thresholds.water) THEN GlobalBiomeAt(6)
  ELSE IF DGt(height, thresholds.mountainStart)
  THEN (IF DGt(height, thresholds.snowStart)
        THEN GlobalBiomeAt(5) ELSE GlobalBiomeAt(4))
  ELSE MoistureBiome(moisture,
                     DLt(RelativeHeight(height, thresholds), DLit(4, 10)))

\* the classification of getGlobalBiome on a sample
GlobalBiomeOf(height, moisture, isRiver, thresholds) ==
  IF isRiver THEN GlobalBiomeAt(6)
  ELSE IF DLt(height, thresholds.water) THEN GlobalBiomeAt(6)
  ELSE IF DGt(height, thresholds.mountainStart)
  THEN (IF DGt(height, thresholds.snowStart)
        THEN GlobalBiomeAt(5) ELSE GlobalBiomeAt(4))
  ELSE MoistureBiome(moisture,
                     DLt(RelativeHeight(height, thresholds), DLit(4, 10)))

\* getGlobalBiome from d = getTerrainData(q, r, settings)
getGlobalBiome(d) == GlobalBiomeOf(d.height, d.moisture, d.isRiver, d.thresholds)

(***************************************************************************)
(* hash128 and getDeterministicRandom.  A string is the sequence of its    *)
(* UTF-16 code units.  A 32-bit word is <<lo, hi>>, its two 16-bit halves; *)
(* Math.imul, ^ and >>> act on the bits of a word.                         *)
(***************************************************************************)
\* the bit of weight d of a ^ b, d a power of 2
XorBit(a, b, d) == ((a \div d) + (b \div d)) % 2

\* a ^ b on bytes
Xor8(a, b) ==
  IF b = 0 THEN a
  ELSE XorBit(a, b, 1) + 2 * XorBit(a, b, 2) + 4 * XorBit(a, b, 4)
         + 8 * XorBit(a, b, 8) + 16 * XorBit(a, b, 16) + 32 * XorBit(a, b, 32)
         + 64 * XorBit(a, b, 64) + 128 * XorBit(a, b, 128)

\* a ^ b on 16-bit halves
Xor16(a, b) ==
  IF b = 0 THEN a
  ELSE Xor8(a % 256, b % 256) + 256 * Xor8(a \div 256, b \div 256)

\* x ^ y
WXor(x, y) == <<Xor16(x[1], y[1]), Xor16(x[2], y[2])>>

\* x >>> 16 and x >>> 13
WShr16(x) == <<x[2], 0>>

WShr13(x) == <<(x[2] * 8 + x[1] \div 8192) % 65536, x[2] \div 8192>>

\* the lower and the upper half of the product of two 16-bit halves
MulLo(x, y) ==
  ((x % 256) * y + (((x \div 256) * y) % 256) * 256) % 65536

MulHi(x, y) ==
  ((x % 256) * y + (((x \div 256) * y) % 256) * 256) \div 65536
    + ((x \div 256) * y) \div 256

\* Math.imul(a, b): the low 32 bits of the product
imul(a, b) ==
  <<MulLo(a[1], b[1]),
    (MulHi(a[1], b[1]) + MulLo(a[1], b[2]) + MulLo(a[2], b[1])) % 65536>>

\* 0xdeadbeef and 0x41c6ce57, the initial h1 and h2
HashInit == <<<<48879, 57005>>, <<52823, 16838>>>>

\* one round of the loop of hash128 on <<h1, h2>> for the code unit ch
HashChar(h, ch) ==
  <<imul(WXor(h[1], <<ch, 0>>), <<31153, 40503>>),
    imul(WXor(h[2], <<ch, 0>>), <<25749, 24373>>)>>

\* the loop of hash128 from index i on
RECURSIVE HashLoop(_, _, _)
HashLoop(str, i, h) ==
  IF i > Len(str) \/ Len(h) # 2 THEN h
  ELSE HashLoop(str, i + 1, HashChar(h, str[i]))

\* Math.imul(a ^ (a >>> 16), 2246822507) ^ Math.imul(b ^ (b >>> 13), 3266489909)
HashMix(a, b) ==
  WXor(imul(WXor(a, WShr16(a)), <<51819, 34283>>),
       imul(WXor(b, WShr13(b)), <<44597, 49842>>))

\* 4294967296 * (2097151 & h2) + (h1 >>> 0) in 16-bit digits, low digit first
HashJoin(h1, h2) == <<h1[1], h1[2], h2[1], h2[2] % 32>>

\* the two final assignments of hash128: the second one reads the new h1
HashFinish(h1, h2) == HashJoin(h1, HashMix(h2, h1))

HashFinal(h) ==
  IF Len(h) # 2 THEN h ELSE HashFinish(HashMix(h[1], h[2]), h[2])

hash128(str) == HashFinal(HashLoop(str, 1, HashInit))

\* (r * 65536 + c) % d for r < d <= 1000000
ModStep(r, c, d) == (((((r * 256) % d) * 256) % d) + c) % d

\* h % d for a value h of hash128
HashMod(h, d) ==
  ModStep(ModStep(ModStep(h[4] % d, h[3], d), h[2], d), h[1], d)

\* the decimal digits of n >= 0
RECURSIVE Digits(_)
Digits(n) == IF n < 10 THEN <<48 + n>> ELSE Digits(n \div 10) \o <<48 + (n % 10)>>

\* `${n}` for an integer n
IntToStr(n) == IF n < 0 THEN <<45>> \o Digits(-n) ELSE Digits(n)

\* `${seed}:${q}:${r}:${context}`
HashKey(q, r, seed, context) ==
  seed \o <<58>> \o IntToStr(q) \o <<58>> \o IntToStr(r) \o <<58>> \o context

\* n / 100000 for an integer n in 0 .. 99999
Fraction(n) == IF n = 0 THEN D0 ELSE DDiv(DFromInt(n), DFromInt(100000))

\* (h % 1000000) / 100000: a remainder with one digit too many
getDeterministicRandomWide(q, r, seed, context) ==
  Fraction(HashMod(hash128(HashKey(q, r, seed, context)), 1000000))

getDeterministicRandom(q, r, seed, context) ==
  Fraction(HashMod(hash128(HashKey(q, r, seed, context)), 100000))

\* the integer held by a double with a value in 0 .. LimbBase^2 - 1
DToInt(a) ==
  IF DIsZero(a) THEN 0
  ELSE Limb(BShr(a.m, -a.e), 1) + LimbBase * Limb(BShr(a.m, -a.e), 2)

(***************************************************************************)
(* shuffleDeterministic and getHexResources.                               *)
(***************************************************************************)
PROBABILITY ==
  [VEGETATION |-> DLit(85, 100), ANIMALS |-> DLit(15, 100),
   MINERALS |-> DLit(20, 100), RARE_STONES |-> DLit(2, 100)]

\* the context strings, as code units
Context ==
  [veg_density |-> <<118, 101, 103, 95, 100, 101, 110, 115, 105, 116, 121>>,
   veg_count |-> <<118, 101, 103, 95, 99, 111, 117, 110, 116>>,
   veg_shuffle |-> <<118, 101, 103, 95, 115, 104, 117, 102, 102, 108, 101>>,
   anim_density |-> <<97, 110, 105, 109, 95, 100, 101, 110, 115, 105, 116, 121>>,
   anim_count |-> <<97, 110, 105, 109, 95, 99, 111, 117, 110, 116>>,
   anim_shuffle |-> <<97, 110, 105, 109, 95, 115, 104, 117, 102, 102, 108, 101>>,
   min_density |-> <<109, 105, 110, 95, 100, 101, 110, 115, 105, 116, 121>>,
   min_count |-> <<109, 105, 110, 95, 99, 111, 117, 110, 116>>,
   min_shuffle |-> <<109, 105, 110, 95, 115, 104, 117, 102, 102, 108, 101>>,
   rare_density |-> <<114, 97, 114, 101, 95, 100, 101, 110, 115, 105, 116, 121>>,
   rare_count |-> <<114, 97, 114, 101, 95, 99, 111, 117, 110, 116>>,
   rare_shuffle |-> <<114, 97, 114, 101, 95, 115, 104, 117, 102, 102, 108, 101>>]

\* Math.floor(rand * m)
FloorTimes(rand, m) ==
  IF DIsZero(rand) THEN 0 ELSE DToInt(DFloor(DMul(rand, DFromInt(m))))

\* Math.floor(rand * m) for the roll of context
RollIndex(q, r, seed, context, m) ==
  FloorTimes(getDeterministicRandom(q, r, seed, context), m)

\* copy[m] = copy[i] alone, the entry that was at m is lost
SwapLost(copy, m, i) == [copy EXCEPT ![m] = copy[i]]

\* t = copy[m]; copy[m] = copy[i]; copy[i] = t, on positions counted from 1
Swap(copy, m, i) == [copy EXCEPT ![m] = copy[i], ![i] = copy[m]]

\* the loop of shuffleDeterministic with m entries still to place
RECURSIVE ShuffleLoop(_, _, _, _, _, _)
ShuffleLoop(copy, m, q, r, seed, salt) ==
  IF m = 0 \/ Len(copy) < m THEN copy
  ELSE ShuffleLoop(
         Swap(copy, m,
              RollIndex(q, r, seed, salt \o <<95>> \o IntToStr(m), m) + 1),
         m - 1, q, r, seed, salt)

shuffleDeterministic(array, q, r, seed, salt) ==
  ShuffleLoop(array, Len(array), q, r, seed, salt)

\* the first entry of the shuffled list taken count times
PicksRepeated(list, count, q, r, seed, salt) ==
  IF Len(list) > 0
  THEN [k \in 1..Min(count, Len(list)) |->
          shuffleDeterministic(list, q, r, seed, salt)[1]]
  ELSE <<>>

\* the shuffled list returned whole, without the slice
PicksUnsliced(list, count, q, r, seed, salt) ==
  IF Len(list) > 0
  THEN shuffleDeterministic(list, q, r, seed, salt)
  ELSE <<>>

\* shuffled.slice(0, Math.min(count, shuffled.length)) when the list has entries
Picks(list, count, q, r, seed, salt) ==
  IF Len(list) > 0
  THEN SubSeq(shuffleDeterministic(list, q, r, seed, salt), 1,
              Min(count, Len(list)))
  ELSE <<>>

Vegetation(list, q, r, seed) ==
  IF DLt(getDeterministicRandom(q, r, seed, Context.veg_density), PROBABILITY.VEGETATION)
  THEN Picks(list, RollIndex(q, r, seed, Context.veg_count, 4) + 1, q, r, seed, Context.veg_shuffle)
  ELSE <<>>

Animals(list, q, r, seed) ==
  IF DLt(getDeterministicRandom(q, r, seed, Context.anim_density), PROBABILITY.ANIMALS)
  THEN Picks(list, RollIndex(q, r, seed, Context.anim_count, 3) + 1, q, r, seed, Context.anim_shuffle)
  ELSE <<>>

Minerals(list, q, r, seed) ==
  IF DLt(getDeterministicRandom(q, r, seed, Context.min_density), PROBABILITY.MINERALS)
  THEN Picks(list, RollIndex(q, r, seed, Context.min_count, 2) + 1, q, r, seed, Context.min_shuffle)
  ELSE <<>>

RareStones(list, q, r, seed) ==
  IF DLt(getDeterministicRandom(q, r, seed, Context.rare_density), PROBABILITY.RARE_STONES)
  THEN Picks(list,
             IF DGt(getDeterministicRandom(q, r, seed, Context.rare_count), DLit(8, 10))
             THEN 2 ELSE 1,
             q, r, seed, Context.rare_shuffle)
  ELSE <<>>

\* the initial value of resources, returned when the terrain has no entry
NoResources ==
  [animals |-> <<>>, minerals |-> <<>>, rareStones |-> <<>>,
   vegetation |-> <<>>, droppedItems |-> <<>>]

\* an absent globalBiomeConfig or customResources adds nothing
NoCustom ==
  [animals |-> <<>>, vegetation |-> <<>>, mineral_resources |-> <<>>,
   rare_stones |-> <<>>]

\* combinedData with the custom entries ahead of those of the table
MergeCustomFirst(base, custom) ==
  [list |-> custom \o base, base |-> base, custom |-> custom]

\* combinedData built by pushing the entries of the table onto the custom
\* list itself
MergeIntoCustom(base, custom) ==
  [list |-> custom \o base, base |-> base, custom |-> custom \o base]

\* combinedData built without the copies: push extends the list of the table
MergeAliased(base, custom) ==
  [list |-> base \o custom, base |-> base \o custom, custom |-> custom]

\* One list of combinedData: [...base] is a fresh array and push(...custom)
\* extends that array; base is the list of the table after the push and
\* custom the list of customResources, which the spread only reads.
Merge(base, custom) ==
  [list |-> base \o custom, base |-> base, custom |-> custom]

\* combinedData, and with it the lists of terrainData after the merge
CombinedData(terrainData, custom) ==
  [animals |-> Merge(terrainData.animals, custom.animals),
   vegetation |-> Merge(terrainData.vegetation, custom.vegetation),
   mineral_resources |->
     Merge(terrainData.mineral_resources, custom.mineral_resources),
   rare_stones |-> Merge(terrainData.rare_stones, custom.rare_stones)]

\* the entry of the table after the merge
TerrainDataAfter(combined) ==
  [animals |-> combined.animals.base,
   vegetation |-> combined.vegetation.base,
   mineral_resources |-> combined.mineral_resources.base,
   rare_stones |-> combined.rare_stones.base]

\* the four categories drawn from combinedData
Sampled(q, r, seed, combined) ==
  [animals |-> Animals(combined.animals.list, q, r, seed),
   minerals |-> Minerals(combined.mineral_resources.list, q, r, seed),
   rareStones |-> RareStones(combined.rare_stones.list, q, r, seed),
   vegetation |-> Vegetation(combined.vegetation.list, q, r, seed),
   droppedItems |-> <<>>]

\* customResources after the merge
CustomAfter(combined) ==
  [animals |-> combined.animals.custom,
   vegetation |-> combined.vegetation.custom,
   mineral_resources |-> combined.mineral_resources.custom,
   rare_stones |-> combined.rare_stones.custom]

ResourcesFrom(q, r, seed, terrain, resourceData, combined) ==
  [resources |-> Sampled(q, r, seed, combined),
   resourceData |->
     [resourceData EXCEPT ![terrain] = TerrainDataAfter(combined)],
   customResources |-> CustomAfter(combined)]

\* getHexResources reading the entry of GRASS for a terrain without one
getHexResourcesDefaulted(q, r, seed, terrain, resourceData, custom) ==
  IF terrain \notin DOMAIN resourceData
  THEN [resources |->
          Sampled(q, r, seed, CombinedData(resourceData.GRASS, custom)),
        resourceData |-> resourceData,
        customResources |-> custom]
  ELSE ResourcesFrom(q, r, seed, terrain, resourceData,
                     CombinedData(resourceData[terrain], custom))

\* getHexResources: the value returned, and the table and customResources as
\* the call leaves them; custom is globalBiomeConfig.customResources, or
\* NoCustom without one
getHexResources(q, r, seed, terrain, resourceData, custom) ==
  IF terrain \notin DOMAIN resourceData
  THEN [resources |-> NoResources, resourceData |-> resourceData,
        customResources |-> custom]
  ELSE ResourcesFrom(q, r, seed, terrain, resourceData,
                     CombinedData(resourceData[terrain], custom))

(***************************************************************************)
(* Hex geometry.                                                           *)
(***************************************************************************)
\* the inner loop of getHexRing: r from r to r2; the coordinates of center
\* are Numbers, q and r small integers
RECURSIVE RingLoopR(_, _, _, _)
RingLoopR(center, q, r, r2) ==
  IF r > r2 THEN <<>>
  ELSE <<[q |-> DAdd(center.q, DFromInt(q)),
          r |-> DAdd(center.r, DFromInt(r))]>>
         \o RingLoopR(center, q, r + 1, r2)

\* the outer loop of getHexRing: q from q to radius
RECURSIVE RingLoopQ(_, _, _)
RingLoopQ(center, radius, q) ==
  IF q > radius THEN <<>>
  ELSE RingLoopR(center, q, Max(-radius, -q - radius), Min(radius, -q + radius))
         \o RingLoopQ(center, radius, q + 1)

\* a ring whose outer loop starts one column late
getHexRingLate(center, radius) == RingLoopQ(center, radius, -radius + 1)

getHexRing(center, radius) == RingLoopQ(center, radius, -radius)

\* Math.round: the nearest integer, a tie going to the integer above
MathRound(x) ==
  IF ~DIsFinite(x) \/ DEq(DFloor(x), x) THEN x
  ELSE IF DGe(DSub(x, DFloor(x)), DLit(1, 2)) THEN DAdd(DFloor(x), D1)
  ELSE DFloor(x)

\* -h.q - h.r, the third cube coordinate of h
CubeS(h) == DSub(DNeg(h.q), h.r)

\* hexRound without its correction: q and r rounded on their own
HexRoundUncorrected(h, q, r, s) == [q |-> q, r |-> r]

\* the correction of hexRound on the rounded q, r, s: q_diff, r_diff and
\* s_diff are the distances of q, r, s from h.q, h.r and -h.q - h.r
HexRoundCorrect(h, q, r, s) ==
  IF /\ DGt(DAbs(DSub(q, h.q)), DAbs(DSub(r, h.r)))
     /\ DGt(DAbs(DSub(q, h.q)), DAbs(DSub(s, CubeS(h))))
  THEN [q |-> DSub(DNeg(r), s), r |-> r]
  ELSE IF DGt(DAbs(DSub(r, h.r)), DAbs(DSub(s, CubeS(h))))
  THEN [q |-> q, r |-> DSub(DNeg(q), s)]
  ELSE [q |-> q, r |-> r]

hexRound(h) ==
  HexRoundCorrect(h, MathRound(h.q), MathRound(h.r), MathRound(CubeS(h)))

\* hexDistance on coordinates held as Numbers; - and + associate to the left
hexDistance(a, b) ==
  DDiv(DAdd(DAdd(DAbs(DSub(a.q, b.q)),
                 DAbs(DSub(DSub(DAdd(a.q, a.r), b.q), b.r))),
            DAbs(DSub(a.r, b.r))),
       DFromInt(2))

\* a % n of JavaScript on integers, n > 0: the sign is that of a
JsRem(a, n) == IF a >= 0 THEN a % n ELSE -((-a) % n)

\* Math.round of a Number x >= 0 that stays far below 2^52
RoundHalfUp(x) == DToInt(DFloor(DAdd(x, DLit(1, 2))))

\* rot and steps of rotateMoveVector
RotationSteps(rotationDeg) ==
  RoundHalfUp(DDiv(DFromInt((JsRem(rotationDeg, 360) + 360) % 360),
                   DFromInt(60)))

\* a loop body that keeps the sign of q
RotateOnceUnnegated(v) == [q |-> DAdd(v.q, v.r), r |-> v.q]

\* the body of the loop: (q, r) -> (q + r, -q)
RotateOnce(v) == [q |-> DAdd(v.q, v.r), r |-> DNeg(v.q)]

\* the loop of rotateMoveVector with steps iterations left
RECURSIVE RotateLoop(_, _)
RotateLoop(v, steps) ==
  IF steps = 0 \/ ~DIsFinite(v.q) THEN v
  ELSE RotateLoop(RotateOnce(v), steps - 1)

rotateMoveVector(dq, dr, rotationDeg) ==
  RotateLoop([q |-> dq, r |-> dr], RotationSteps(rotationDeg))

\* h >> 16 for a value h of hash128: ToInt32 keeps the low 32 bits of h as
\* a signed integer, and >> keeps its sign
ShiftRight16(h) == IF h[2] >= 32768 THEN h[2] - 65536 ELSE h[2]

\* getStartPositionFromSeed; q and r are integers
getStartPositionFromSeed(seed) ==
  [q |-> HashMod(hash128(seed), 20000) - 10000,
   r |-> JsRem(ShiftRight16(hash128(seed)), 20000) - 10000]

(***************************************************************************)
(* Bounds and input sets.                                                  *)
(***************************************************************************)
\* heights k / HeightSteps are sampled besides the thresholds themselves
HeightSteps == 8

\* threshold computations are checked for all weights of total <= MaxTotal
MaxTotal == 5

\* ring centres have coordinates in -CenterRange .. CenterRange
CenterRange == 2

MaxRadius == 3

Weights(deep, water, sand, grass, forest, mountain, snow) ==
  [DEEP_WATER |-> deep, WATER |-> water, SAND |-> sand, GRASS |-> grass,
   FOREST |-> forest, MOUNTAIN |-> mountain, SNOW |-> snow]

\* the configurations the terrain queries are checked for
WeightConfigs ==
  { DEFAULT_TERRAIN_WEIGHTS,
    Weights(0, 0, 0, 0, 0, 0, 0),
    Weights(1, 0, 0, 0, 0, 0, 0),
    Weights(0, 1, 0, 0, 0, 0, 0),
    Weights(0, 0, 0, 1, 0, 0, 0),
    Weights(0, 0, 1, 0, 0, 0, 0),
    Weights(0, 0, 0, 0, 0, 0, 1),
    Weights(1, 1, 1, 1, 1, 1, 1),
    Weights(0, 1, 0, 0, 0, 2, 2),
    Weights(100, 100, 0, 1, 0, 0, 0),
    Weights(600, 600, 0, 1, 0, 0, 0),
    Weights(0, 1, 0, 99, 0, 0, 0) }

SmallWeights ==
  { w \in [TerrainType -> 0..MaxTotal] : WeightTotal(w) <= MaxTotal }

In01(x) == DIsFinite(x) /\ DGe(x, D0) /\ DLe(x, D1)

\* the doubles next to x inside (0, 1)
Neighbours(x) ==
  IF DGt(x, D0) /\ DLt(x, D1) THEN {DPred(x), DSucc(x)} ELSE {}

\* base heights: a grid, the thresholds and the doubles next to them
HeightInputs(t) ==
  { DDiv(DFromInt(k), DFromInt(HeightSteps)) : k \in 0..HeightSteps }
    \cup { x \in {t.deepWater, t.water, t.sand, t.mountainStart, t.snowStart} :
             In01(x) }
    \cup UNION { Neighbours(x) : x \in {t.water, t.mountainStart} }

RiverInputs == {DLit(48, 100), DLit(475, 1000)}

MoistureInputs == {D0, DLit(35, 100), DLit(5, 10), DLit(65, 100), D1}

IslandInputs == {DLit(85, 100), DLit(9, 10)}

NoiseInputsFor(t) ==
  { [height |-> h, river |-> rv, moisture |-> m, island |-> i] :
      h \in HeightInputs(t), rv \in RiverInputs,
      m \in MoistureInputs, i \in IslandInputs }

NoiseInputs(weights) == NoiseInputsFor(calculateThresholds(weights))

\* the longest log of calls explored
MaxCalls == 3

\* hexDistance is explored on the hexes with |q|, |r| <= DistanceRange and
\* on LargeHexes
DistanceRange == 1

\* the hex (q, r) with its coordinates as Numbers
HexOf(q, r) == [q |-> DFromInt(q), r |-> DFromInt(r)]

\* Number.MAX_SAFE_INTEGER, 2^53 - 1
MaxSafeInteger == DSub(DMul(DFromInt(2^26), DFromInt(2^27)), D1)

\* hexes far from the origin, as a loaded save can hold them
LargeHexes ==
  { [q |-> MaxSafeInteger, r |-> DFromInt(2)],
    [q |-> DNeg(MaxSafeInteger), r |-> MaxSafeInteger],
    [q |-> DFromInt(2^30), r |-> DFromInt(-(2^30))] }

\* rotateMoveVector is explored on the vectors with |dq|, |dr| <=
\* RotateRange and on LargeHexes
RotateRange == 2

ResourceRange == 2

RandomRange == 2

\* the longest array shuffled
ShuffleLen == 4

RandomCalls == 2

\* the vector (2^52, 2^52 - 1), whose coordinates sum to 2^53 - 1
WideVector ==
  [q |-> DMul(DFromInt(2^26), DFromInt(2^26)),
   r |-> DSub(DMul(DFromInt(2^26), DFromInt(2^26)), D1)]

MoveVectors ==
  { HexOf(q, r) : q \in -RotateRange..RotateRange,
                  r \in -RotateRange..RotateRange }
    \cup LargeHexes \cup {WideVector}

\* angles that normalise to 60 degrees
Rotations == {60, 420, -300}

\* the centres of getHexRing: the player position, near the origin or far
\* from it
RingCenters ==
  { HexOf(q, r) : q \in -CenterRange..CenterRange,
                  r \in -CenterRange..CenterRange }
    \cup LargeHexes

(***************************************************************************)
(* The player of App: movePlayer and handleTeleport.                       *)
(***************************************************************************)
HEX_DIRECTIONS ==
  <<HexOf(1, 0), HexOf(0, 1), HexOf(-1, 1), HexOf(-1, 0), HexOf(0, -1),
    HexOf(1, -1)>>

\* Math.pow(x, 3)
Cube(x) == DMul(DMul(x, x), x)

easeInOutCubic(t) ==
  IF DLt(t, DLit(1, 2)) THEN DMul(DMul(DMul(DFromInt(4), t), t), t)
  ELSE DSub(D1, DDiv(Cube(DAdd(DMul(DFromInt(-2), t), DFromInt(2))),
                     DFromInt(2)))

\* duration of handleTeleport for the distance dist
TeleportDuration(dist) ==
  DMin(DFromInt(3000), DAdd(DFromInt(1000), DMul(dist, DFromInt(10))))

\* progress of animate when elapsed milliseconds have passed
Progress(elapsed, duration) == DMin(DDiv(DFromInt(elapsed), duration), D1)

\* { currentQ, currentR } of animate
AnimatedPos(startPos, endPos, ease) ==
  [q |-> DAdd(startPos.q, DMul(DSub(endPos.q, startPos.q), ease)),
   r |-> DAdd(startPos.r, DMul(DSub(endPos.r, startPos.r), ease))]

\* movePlayer without the test of isTeleporting
MayMoveAlways(started, teleporting) == started

\* the guard of movePlayer: !hasStarted || isTeleporting returns
MayMove(started, teleporting) == started /\ ~teleporting

\* movePlayer that adds the key's vector as it is
MovedUnrotated(pos, dq, dr, rotationDeg) ==
  [q |-> DAdd(pos.q, dq), r |-> DAdd(pos.r, dr)]

\* prev => ({ q: prev.q + rotated.q, r: prev.r + rotated.r })
Moved(pos, dq, dr, rotationDeg) ==
  [q |-> DAdd(pos.q, rotateMoveVector(dq, dr, rotationDeg).q),
   r |-> DAdd(pos.r, rotateMoveVector(dq, dr, rotationDeg).r)]

\* keyboard moves are explored up to MaxMoves of them
MaxMoves == 2

\* movePlayer is explored on the rotations -AngleRange .. AngleRange
AngleRange == 400

\* milliseconds between two animation frames
FrameTimes == {700, 1600}

\* positions of a new game (generateRandomCoordinate stays within
\* -1000000 .. 999999) and of a game that was saved
StartPositions == {HexOf(0, 0), HexOf(-1000000, 999999)}

\* the saved locations a teleport goes to
TeleportTargets == {HexOf(3, -1), HexOf(-1000000, 999999)}

(***************************************************************************)
(* The inventory of App.  An item is its uuid, a positive integer; an      *)
(* empty slot holds Null.                                                  *)
(***************************************************************************)
\* createEmptyInventory makes 6 containers of 36 slots and the crafting
\* table has 6 slots; the handlers are explored on fewer
ContainerCount == 2

SlotCount == 1

CraftingCount == 2

\* the number of items collected from nature
MaxItems == 3

Null == 0

\* Array(n).fill(x)
RECURSIVE Repeat(_, _)
Repeat(x, n) == IF n = 0 THEN <<>> ELSE Append(Repeat(x, n - 1), x)

RECURSIVE Containers(_)
Containers(n) ==
  IF n = 0 THEN <<>>
  ELSE Append(Containers(n - 1),
              [id |-> n - 1, slots |-> Repeat(Null, SlotCount)])

createEmptyInventory == Containers(ContainerCount)

\* slots.findIndex(s => s === null) from position i on: 0-based, -1 if none
RECURSIVE FindNullFrom(_, _)
FindNullFrom(slots, i) ==
  IF i > Len(slots) THEN -1
  ELSE IF slots[i] = Null THEN i - 1
  ELSE FindNullFrom(slots, i + 1)

FindNull(slots) == FindNullFrom(slots, 1)

\* the loop of addToInventory from container i on: <<targetContainerIdx,
\* targetSlotIdx>> of the first container with an empty slot, <<>> if none
RECURSIVE FirstFreeFrom(_, _)
FirstFreeFrom(inv, i) ==
  IF i > Len(inv) THEN <<>>
  ELSE IF FindNull(inv[i].slots) # -1 THEN <<i - 1, FindNull(inv[i].slots)>>
  ELSE FirstFreeFrom(inv, i + 1)

FirstFree(inv) == FirstFreeFrom(inv, 1)

\* the inventory after addToInventory(item, source): unchanged when every
\* slot is taken (the alert)
addToInventory(inv, item) ==
  IF FirstFree(inv) = <<>> THEN inv
  ELSE [inv EXCEPT ![FirstFree(inv)[1] + 1].slots[FirstFree(inv)[2] + 1] = item]

\* current.filter(i => i.uuid !== item.uuid)
RECURSIVE Without(_, _)
Without(items, item) ==
  IF items = <<>> THEN <<>>
  ELSE IF Head(items) = item THEN Without(Tail(items), item)
  ELSE <<Head(items)>> \o Without(Tail(items), item)

\* inventory.find(c => c.id === containerId): its position, 0 if none
RECURSIVE ContainerFrom(_, _, _)
ContainerFrom(inv, containerId, i) ==
  IF i > Len(inv) THEN 0
  ELSE IF inv[i].id = containerId THEN i
  ELSE ContainerFrom(inv, containerId, i + 1)

ContainerOf(inv, containerId) == ContainerFrom(inv, containerId, 1)

\* container.slots[slotIndex], Null when there is no such slot
SlotAt(inv, containerId, slotIndex) ==
  IF ContainerOf(inv, containerId) = 0 THEN Null
  ELSE IF slotIndex + 1 \in DOMAIN inv[ContainerOf(inv, containerId)].slots
  THEN inv[ContainerOf(inv, containerId)].slots[slotIndex + 1]
  ELSE Null

\* the inventory with slots[slotIndex] of the container set to null
Cleared(inv, containerId, slotIndex) ==
  [inv EXCEPT ![ContainerOf(inv, containerId)].slots[slotIndex + 1] = Null]

\* the fractional inputs of hexRound are (i / RoundSteps, j / RoundSteps)
\* for |i|, |j| <= RoundRange
RoundSteps == 4

RoundRange == 6

\* the inputs of hexRound: fine tells that h is (i / RoundSteps,
\* j / RoundSteps); the others are the hexes far from the origin
RoundInputs ==
  { [h |-> [q |-> DLit(i, RoundSteps), r |-> DLit(j, RoundSteps)],
     i |-> i, j |-> j, fine |-> TRUE] :
      i \in -RoundRange..RoundRange, j \in -RoundRange..RoundRange }
    \cup { [h |-> x, i |-> 0, j |-> 0, fine |-> FALSE] : x \in LargeHexes }

DistanceHexes ==
  { HexOf(q, r) : q \in -DistanceRange..DistanceRange,
                  r \in -DistanceRange..DistanceRange }
    \cup LargeHexes

\* the seeds "A" and "B"
SeedA == <<65>>

SeedB == <<66>>

GrassOnly == Weights(0, 0, 0, 1, 0, 0, 0)

\* the (q, r, settings) that getTerrain and getElevation are called with
TerrainArgs ==
  { [q |-> 0, r |-> 0, seed |-> SeedA,
     terrainWeights |-> DEFAULT_TERRAIN_WEIGHTS],
    [q |-> 0, r |-> 0, seed |-> SeedB,
     terrainWeights |-> DEFAULT_TERRAIN_WEIGHTS],
    [q |-> 1, r |-> -1, seed |-> SeedB, terrainWeights |-> GrassOnly] }

\* the table the caller holds when the program starts
ResourceTable ==
  [GRASS |->
     [animals |-> <<"rabbit", "deer">>,
      vegetation |-> <<"oak", "fern", "moss">>,
      mineral_resources |-> <<"clay">>,
      rare_stones |-> <<"opal", "ruby">>],
   FOREST |->
     [animals |-> <<"boar">>,
      vegetation |-> <<"pine", "ivy">>,
      mineral_resources |-> <<"iron", "coal">>,
      rare_stones |-> <<>>],
   SAND |->
     [animals |-> <<>>,
      vegetation |-> <<>>,
      mineral_resources |-> <<"salt">>,
      rare_stones |-> <<>>]]

\* the customResources of a global biome
CustomResources ==
  [animals |-> <<"llama">>, vegetation |-> <<"cactus">>,
   mineral_resources |-> <<>>, rare_stones |-> <<>>]

\* customResources that repeat entries of GRASS
CustomDuplicates ==
  [animals |-> <<"deer">>, vegetation |-> <<"oak">>,
   mineral_resources |-> <<>>, rare_stones |-> <<>>]

\* the (q, r, seed, terrain, customResources) that getHexResources is called
\* with; SNOW has no entry in the table
ResourceArgs ==
  { [q |-> 0, r |-> 0, seed |-> SeedA, terrain |-> "GRASS", custom |-> c] :
      c \in {NoCustom, CustomResources} }
    \cup
  { [q |-> 1, r |-> -1, seed |-> SeedB, terrain |-> "GRASS",
     custom |-> CustomResources] }
    \cup
  { [q |-> 0, r |-> 0, seed |-> SeedA, terrain |-> "SNOW",
     custom |-> NoCustom] }

\* hexes up to ResourceRange from the origin, and (-4, -4), where both rare
\* rolls of seed "A" succeed
ResourceHexes ==
  { <<q, r>> : q \in -ResourceRange..ResourceRange,
               r \in -ResourceRange..ResourceRange }
    \cup {<<-4, -4>>}

\* the calls of getHexResources on those hexes
HexResourceArgs ==
  { [q |-> h[1], r |-> h[2], seed |-> s, terrain |-> t, custom |-> c] :
      h \in ResourceHexes, s \in {SeedA, SeedB},
      t \in {"GRASS", "FOREST", "SAND", "SNOW"},
      c \in {NoCustom, CustomResources, CustomDuplicates} }

\* seeds of getStartPositionFromSeed have up to SeedLen code units
SeedLen == 4

\* the strings of up to n code units out of "a", "0" and one above 255
RECURSIVE Strings(_)
Strings(n) ==
  IF n = 0 THEN {<<>>}
  ELSE Strings(n - 1)
         \cup { Append(str, ch) : str \in Strings(n - 1), ch \in {97, 48, 8364} }

StartSeeds == Strings(SeedLen)

\* seeds of getDeterministicRandom: "", "A", "B" and one with code units
\* above 255
RandomSeeds == {<<>>, SeedA, SeedB, <<233, 8364>>}

\* the contexts getHexResources and shuffleDeterministic pass
RandomContexts ==
  { Context[k] : k \in DOMAIN Context }
    \cup { Context.veg_shuffle \o <<95>> \o IntToStr(m) : m \in 1..4 }

RandomArgs ==
  [q : -RandomRange..RandomRange, r : -RandomRange..RandomRange,
   seed : RandomSeeds, context : RandomContexts]

\* the arrays shuffled: 1 .. n for every length n up to ShuffleLen
ShuffleArrays == { SubSeq(<<1, 2, 3, 4, 5, 6>>, 1, n) : n \in 0..ShuffleLen }

\* the salts getHexResources passes to shuffleDeterministic
ShuffleSalts ==
  {Context.veg_shuffle, Context.anim_shuffle, Context.min_shuffle,
   Context.rare_shuffle}

ShuffleArgs ==
  { [array |-> a, q |-> h[1], r |-> h[2], seed |-> s, salt |-> c] :
      a \in ShuffleArrays, h \in ResourceHexes, s \in {SeedA, SeedB},
      c \in ShuffleSalts }

\* the (seed, q, r) whose noise is sampled
NoisePoints == { <<a.seed, a.q, a.r>> : a \in TerrainArgs }

LowlandNoise ==
  [height |-> DLit(5, 10), river |-> DLit(2, 10), moisture |-> DLit(5, 10),
   island |-> DLit(5, 10)]

OceanNoise ==
  [height |-> DLit(1, 10), river |-> DLit(2, 10), moisture |-> DLit(8, 10),
   island |-> DLit(9, 10)]

PeakNoise ==
  [height |-> DLit(95, 100), river |-> DLit(5, 10), moisture |-> DLit(2, 10),
   island |-> DLit(5, 10)]

\* The four fbm/valueNoise channels of a hex are functions of (q, r, seed)
\* built from Math.sin, Math.sqrt and Math.pow; which function is left open.
NoiseFields ==
  { [p \in NoisePoints |-> IF p[1] = SeedA THEN LowlandNoise ELSE OceanNoise],
    [p \in NoisePoints |-> IF p[2] = 0 THEN PeakNoise ELSE LowlandNoise] }

(***************************************************************************)
(* State.  op names the operation that acted last.                         *)
(*   weights, noise         the arguments of the last query                *)
(*   thresholds             the result of calculateThresholds(weights)     *)
(*   data, terrain,         the results of getTerrainData, getTerrain and  *)
(*   elevation, biome       getElevation for (noise, weights), and the id  *)
(*                          of the entry getGlobalBiome returns for them   *)
(*   center, radius, ring   the arguments and result of getHexRing         *)
(*   field                  the noise channels of each (seed, q, r)        *)
(*   resourceData           the resource table the caller holds; every     *)
(*                          call of getHexResources is handed this object  *)
(*   calls                  the calls made so far, with their results      *)
(*   args, result           the arguments and the result of a call of one  *)
(*                          of the functions explored on their own         *)
(***************************************************************************)
VARIABLES op, weights, noise, thresholds, data, terrain, elevation, biome,
          center, radius, ring, field, resourceData, calls, args, result,
          inventory, craftingSlots, droppedItems, uuids,
          hasStarted, playerPos, rotation, metersTraveled, isTeleporting,
          frame

terrainVars ==
  <<weights, noise, thresholds, data, terrain, elevation, biome>>

ringVars == <<center, radius, ring>>

callVars == <<field, resourceData, calls>>

pureVars == <<args, result>>

\* the state of App: inventory, craftingSlots and droppedItems (the entry of
\* the player's hex) with the number of uuids issued so far; hasStarted,
\* playerPos, rotation, metersTraveled and isTeleporting with the pending
\* animation frame of handleTeleport
inventoryVars == <<inventory, craftingSlots, droppedItems, uuids>>

playerVars ==
  <<hasStarted, playerPos, rotation, metersTraveled, isTeleporting, frame>>

appVars == <<inventoryVars, playerVars>>

vars == <<op, terrainVars, ringVars, callVars, pureVars, appVars>>

NoNoise == [height |-> D0, river |-> D0, moisture |-> D0, island |-> D0]

NoData ==
  [height |-> D0, moisture |-> D0, isRiver |-> FALSE,
   thresholds |-> FallbackThresholds]

TerrainIdle ==
  /\ weights = DEFAULT_TERRAIN_WEIGHTS
  /\ noise = NoNoise
  /\ thresholds = FallbackThresholds
  /\ data = NoData
  /\ terrain = "GRASS"
  /\ elevation = D0
  /\ biome = "none"

RingIdle ==
  /\ center = HexOf(0, 0)
  /\ radius = 0
  /\ ring = <<>>

CallsIdle ==
  /\ field = [p \in NoisePoints |-> NoNoise]
  /\ resourceData = ResourceTable
  /\ calls = <<>>

PureIdle ==
  /\ args = <<>>
  /\ result = <<>>

\* the state of App after construction
InventoryIdle ==
  /\ inventory = createEmptyInventory
  /\ craftingSlots = Repeat(Null, CraftingCount)
  /\ droppedItems = <<>>
  /\ uuids = 0

PlayerIdle ==
  /\ hasStarted = FALSE
  /\ playerPos = HexOf(0, 0)
  /\ rotation = 0
  /\ metersTraveled = 0
  /\ isTeleporting = FALSE
  /\ frame = <<>>

AppIdle == InventoryIdle /\ PlayerIdle

(***************************************************************************)
(* Spec: terrain and elevation queries of one hex.                         *)
(***************************************************************************)
Init ==
  /\ op = "init"
  /\ AppIdle
  /\ weights \in WeightConfigs
  /\ noise = NoNoise
  /\ thresholds = FallbackThresholds
  /\ data = NoData
  /\ terrain = "GRASS"
  /\ elevation = D0
  /\ biome = "none"
  /\ RingIdle
  /\ CallsIdle
  /\ PureIdle

\* getTerrain, getElevation and getGlobalBiome of one hex under the current
\* settings: all start from getTerrainData, which starts from calculateThresholds.  A
\* query reads nothing of an earlier one, so one query per behaviour is
\* explored here.
QueryHex(n) ==
  /\ op = "init"
  /\ op' = "query"
  /\ noise' = n
  /\ thresholds' = calculateThresholds(weights)
  /\ data' = getTerrainData(n, thresholds')
  /\ terrain' = getTerrain(data')
  /\ elevation' = getElevation(data')
  /\ biome' = getGlobalBiome(data')
  /\ UNCHANGED <<appVars, weights, ringVars, callVars, pureVars>>

Next == \E n \in NoiseInputs(weights) : QueryHex(n)

Spec == Init /\ [][Next]_vars

(***************************************************************************)
(* SpecThresholds: calculateThresholds on every small weight vector.       *)
(***************************************************************************)
InitThresholds ==
  /\ op = "init"
  /\ AppIdle
  /\ weights \in SmallWeights
  /\ noise = NoNoise
  /\ thresholds = FallbackThresholds
  /\ data = NoData
  /\ terrain = "GRASS"
  /\ elevation = D0
  /\ biome = "none"
  /\ RingIdle
  /\ CallsIdle
  /\ PureIdle

CallCalculateThresholds ==
  /\ op = "init"
  /\ op' = "thresholds"
  /\ thresholds' = calculateThresholds(weights)
  /\ UNCHANGED <<appVars, weights, noise, data, terrain, elevation, biome, ringVars,
               callVars, pureVars>>

NextThresholds == CallCalculateThresholds

SpecThresholds == InitThresholds /\ [][NextThresholds]_vars

(***************************************************************************)
(* SpecRing: getHexRing on every small centre and radius.                  *)
(***************************************************************************)
InitRing ==
  /\ op = "init"
  /\ AppIdle
  /\ TerrainIdle
  /\ center \in RingCenters
  /\ radius \in 0..MaxRadius
  /\ ring = <<>>
  /\ CallsIdle
  /\ PureIdle

CallGetHexRing ==
  /\ op = "init"
  /\ op' = "ring"
  /\ ring' = getHexRing(center, radius)
  /\ UNCHANGED <<appVars, terrainVars, center, radius, callVars, pureVars>>

NextRing == CallGetHexRing

SpecRing == InitRing /\ [][NextRing]_vars

(***************************************************************************)
(* SpecDistance: hexDistance between the hexes of a triple.                *)
(***************************************************************************)
InitDistance ==
  /\ op = "init"
  /\ AppIdle
  /\ TerrainIdle
  /\ RingIdle
  /\ CallsIdle
  /\ args \in [a : DistanceHexes, b : DistanceHexes, c : DistanceHexes]
  /\ result = <<>>

CallHexDistance ==
  /\ op = "init"
  /\ op' = "hexDistance"
  /\ result' = [ab |-> hexDistance(args.a, args.b),
                ba |-> hexDistance(args.b, args.a),
                bc |-> hexDistance(args.b, args.c),
                ac |-> hexDistance(args.a, args.c)]
  /\ UNCHANGED <<appVars, terrainVars, ringVars, callVars, args>>

NextDistance == CallHexDistance

SpecDistance == InitDistance /\ [][NextDistance]_vars

(***************************************************************************)
(* SpecRotate: rotateMoveVector applied to its own result, up to six       *)
(* times.  result.n counts the applications.                               *)
(***************************************************************************)
InitRotate ==
  /\ op = "init"
  /\ AppIdle
  /\ TerrainIdle
  /\ RingIdle
  /\ CallsIdle
  /\ args \in [v : MoveVectors, rotationDeg : Rotations]
  /\ result = [v |-> args.v, n |-> 0]

CallRotateMoveVector ==
  /\ result.n < 6
  /\ op' = "rotateMoveVector"
  /\ result' = [v |-> rotateMoveVector(result.v.q, result.v.r,
                                       args.rotationDeg),
                n |-> result.n + 1]
  /\ UNCHANGED <<appVars, terrainVars, ringVars, callVars, args>>

NextRotate == CallRotateMoveVector

SpecRotate == InitRotate /\ [][NextRotate]_vars

(***************************************************************************)
(* SpecCalls: any sequence of up to MaxCalls calls of getTerrain,          *)
(* getElevation and getHexResources.  The only objects that outlive a call *)
(* are the ones the caller passes in: the settings, which no callee        *)
(* assigns to, and the resource table.                                     *)
(***************************************************************************)
InitCalls ==
  /\ op = "init"
  /\ AppIdle
  /\ TerrainIdle
  /\ RingIdle
  /\ field \in NoiseFields
  /\ resourceData = ResourceTable
  /\ calls = <<>>
  /\ PureIdle

\* getTerrain(q, r, settings)
CallGetTerrain(a) ==
  /\ Len(calls) < MaxCalls
  /\ op' = "getTerrain"
  /\ weights' = a.terrainWeights
  /\ noise' = field[<<a.seed, a.q, a.r>>]
  /\ thresholds' = calculateThresholds(weights')
  /\ data' = getTerrainData(noise', thresholds')
  /\ terrain' = getTerrain(data')
  /\ calls' = Append(calls,
                     [fn |-> "getTerrain", args |-> a, result |-> terrain'])
  /\ UNCHANGED <<appVars, elevation, biome, ringVars, field, resourceData, pureVars>>

\* getElevation(q, r, settings)
CallGetElevation(a) ==
  /\ Len(calls) < MaxCalls
  /\ op' = "getElevation"
  /\ weights' = a.terrainWeights
  /\ noise' = field[<<a.seed, a.q, a.r>>]
  /\ thresholds' = calculateThresholds(weights')
  /\ data' = getTerrainData(noise', thresholds')
  /\ elevation' = getElevation(data')
  /\ calls' = Append(calls,
                     [fn |-> "getElevation", args |-> a, result |-> elevation'])
  /\ UNCHANGED <<appVars, terrain, biome, ringVars, field, resourceData, pureVars>>

\* getHexResources(q, r, seed, terrain, resourceData, globalBiomeConfig)
CallGetHexResources(a) ==
  /\ Len(calls) < MaxCalls
  /\ op' = "getHexResources"
  /\ \E out \in {getHexResources(a.q, a.r, a.seed, a.terrain, resourceData,
                                  a.custom)} :
       /\ resourceData' = out.resourceData
       /\ calls' = Append(calls,
                          [fn |-> "getHexResources", args |-> a,
                           result |-> out.resources])
  /\ UNCHANGED <<appVars, terrainVars, ringVars, field, pureVars>>

NextCalls ==
  \/ \E a \in TerrainArgs : CallGetTerrain(a)
  \/ \E a \in TerrainArgs : CallGetElevation(a)
  \/ \E a \in ResourceArgs : CallGetHexResources(a)

SpecCalls == InitCalls /\ [][NextCalls]_vars

(***************************************************************************)
(* SpecResources: one call of getHexResources on a hex of the map.         *)
(***************************************************************************)
InitResources ==
  /\ op = "init"
  /\ AppIdle
  /\ TerrainIdle
  /\ RingIdle
  /\ CallsIdle
  /\ args \in HexResourceArgs
  /\ result = <<>>

\* getHexResources(q, r, seed, terrain, resourceData, globalBiomeConfig)
CallHexResources ==
  /\ op = "init"
  /\ op' = "getHexResources"
  /\ \E out \in {getHexResources(args.q, args.r, args.seed, args.terrain,
                                  resourceData, args.custom)} :
       /\ resourceData' = out.resourceData
       /\ result' = [resources |-> out.resources,
                     customResources |-> out.customResources]
  /\ UNCHANGED <<appVars, terrainVars, ringVars, field, calls, args>>

NextResources == CallHexResources

SpecResources == InitResources /\ [][NextResources]_vars

(***************************************************************************)
(* SpecRandom: repeated calls of getDeterministicRandom on one input.      *)
(***************************************************************************)
InitRandom ==
  /\ op = "init"
  /\ AppIdle
  /\ TerrainIdle
  /\ RingIdle
  /\ CallsIdle
  /\ args \in RandomArgs
  /\ result = <<>>

\* getDeterministicRandom(q, r, seed, context): h and the value returned
CallGetDeterministicRandom ==
  /\ Len(result) < RandomCalls
  /\ op' = "getDeterministicRandom"
  /\ result' = Append(result,
                      [h |-> hash128(HashKey(args.q, args.r, args.seed,
                                             args.context)),
                       v |-> getDeterministicRandom(args.q, args.r, args.seed,
                                                    args.context)])
  /\ UNCHANGED <<appVars, terrainVars, ringVars, callVars, args>>

NextRandom == CallGetDeterministicRandom

SpecRandom == InitRandom /\ [][NextRandom]_vars

(***************************************************************************)
(* SpecShuffle: shuffleDeterministic, one iteration of its loop per step.  *)
(* result holds copy, m and the draws made: the m and context of each      *)
(* draw and the index i it gave.                                           *)
(***************************************************************************)
InitShuffle ==
  /\ op = "init"
  /\ AppIdle
  /\ TerrainIdle
  /\ RingIdle
  /\ CallsIdle
  /\ args \in ShuffleArgs
  /\ result = [copy |-> args.array, m |-> Len(args.array), draws |-> <<>>]

\* the draw of one iteration: rand for `${salt}_${m}`, i = Math.floor(rand * m)
ShuffleDraw(m) ==
  [m |-> m,
   context |-> args.salt \o <<95>> \o IntToStr(m),
   i |-> RollIndex(args.q, args.r, args.seed,
                   args.salt \o <<95>> \o IntToStr(m), m)]

\* one iteration of while (m)
ShuffleStep ==
  /\ result.m # 0
  /\ op' = "shuffleDeterministic"
  /\ \E d \in {ShuffleDraw(result.m)} :
       result' = [copy |-> Swap(result.copy, result.m, d.i + 1),
                  m |-> result.m - 1,
                  draws |-> Append(result.draws, d)]
  /\ UNCHANGED <<appVars, terrainVars, ringVars, callVars, args>>

NextShuffle == ShuffleStep

SpecShuffle == InitShuffle /\ [][NextShuffle]_vars

(***************************************************************************)
(* SpecInventory: the inventory handlers of App.                           *)
(***************************************************************************)
InitInventory ==
  /\ op = "init"
  /\ TerrainIdle
  /\ RingIdle
  /\ CallsIdle
  /\ PureIdle
  /\ AppIdle

\* handleCollectItem(item, 'nature'): the item gets a fresh uuid
CollectFromNature ==
  /\ uuids < MaxItems
  /\ op' = "handleCollectItem"
  /\ uuids' = uuids + 1
  /\ inventory' = addToInventory(inventory, uuids + 1)
  /\ UNCHANGED <<craftingSlots, droppedItems>>
  /\ UNCHANGED <<terrainVars, ringVars, callVars, pureVars, playerVars>>

\* handleCollectItem(item, 'ground', hex) on the k-th item lying on the hex
CollectFromGround(k) ==
  /\ k \in 1..Len(droppedItems)
  /\ op' = "handleCollectItem"
  /\ inventory' = addToInventory(inventory, droppedItems[k])
  /\ droppedItems' = IF FirstFree(inventory) = <<>> THEN droppedItems
                     ELSE Without(droppedItems, droppedItems[k])
  /\ UNCHANGED <<craftingSlots, uuids>>
  /\ UNCHANGED <<terrainVars, ringVars, callVars, pureVars, playerVars>>

handleDropItem(containerId, slotIndex) ==
  /\ ContainerOf(inventory, containerId) # 0
  /\ SlotAt(inventory, containerId, slotIndex) # Null
  /\ op' = "handleDropItem"
  /\ inventory' = Cleared(inventory, containerId, slotIndex)
  /\ droppedItems' =
       Append(droppedItems, SlotAt(inventory, containerId, slotIndex))
  /\ UNCHANGED <<craftingSlots, uuids>>
  /\ UNCHANGED <<terrainVars, ringVars, callVars, pureVars, playerVars>>

handleAddToCrafting(containerId, slotIndex) ==
  /\ ContainerOf(inventory, containerId) # 0
  /\ SlotAt(inventory, containerId, slotIndex) # Null
  /\ op' = "handleAddToCrafting"
  /\ IF FindNull(craftingSlots) # -1
     THEN /\ inventory' = Cleared(inventory, containerId, slotIndex)
          /\ craftingSlots' =
               [craftingSlots EXCEPT ![FindNull(craftingSlots) + 1] =
                  SlotAt(inventory, containerId, slotIndex)]
     ELSE UNCHANGED <<inventory, craftingSlots>>
  /\ UNCHANGED <<droppedItems, uuids>>
  /\ UNCHANGED <<terrainVars, ringVars, callVars, pureVars, playerVars>>

handleReturnFromCrafting(index) ==
  /\ index \in 0..(Len(craftingSlots) - 1)
  /\ craftingSlots[index + 1] # Null
  /\ op' = "handleReturnFromCrafting"
  /\ inventory' = addToInventory(inventory, craftingSlots[index + 1])
  /\ craftingSlots' = [craftingSlots EXCEPT ![index + 1] = Null]
  /\ UNCHANGED <<droppedItems, uuids>>
  /\ UNCHANGED <<terrainVars, ringVars, callVars, pureVars, playerVars>>

NextInventory ==
  \/ CollectFromNature
  \/ \E k \in 1..MaxItems : CollectFromGround(k)
  \/ \E c \in 0..(ContainerCount - 1), i \in 0..(SlotCount - 1) :
       handleDropItem(c, i)
  \/ \E c \in 0..(ContainerCount - 1), i \in 0..(SlotCount - 1) :
       handleAddToCrafting(c, i)
  \/ \E i \in 0..(CraftingCount - 1) : handleReturnFromCrafting(i)

SpecInventory == InitInventory /\ [][NextInventory]_vars

(***************************************************************************)
(* The player handlers of App.                                             *)
(***************************************************************************)
\* handleStart of the landing page, which is rendered until hasStarted,
\* with the position of the new or the loaded game
handleStart(pos) ==
  /\ ~hasStarted
  /\ op' = "handleStart"
  /\ hasStarted' = TRUE
  /\ playerPos' = pos
  /\ UNCHANGED <<rotation, metersTraveled, isTeleporting, frame>>
  /\ UNCHANGED <<terrainVars, ringVars, callVars, pureVars, inventoryVars>>

\* rotateMap(delta) of the controls, delta = 60 or -60; the controls are
\* rendered once hasStarted
rotateMap(delta) ==
  /\ hasStarted
  /\ op' = "rotateMap"
  /\ rotation' = JsRem(rotation + delta, 360)
  /\ UNCHANGED <<hasStarted, playerPos, metersTraveled, isTeleporting, frame>>
  /\ UNCHANGED <<terrainVars, ringVars, callVars, pureVars, inventoryVars>>

\* movePlayer(dq, dr) with d = (dq, dr)
movePlayer(d) ==
  /\ MayMove(hasStarted, isTeleporting)
  /\ metersTraveled < 500 * MaxMoves
  /\ op' = "movePlayer"
  /\ playerPos' = Moved(playerPos, d.q, d.r, rotation)
  /\ metersTraveled' = metersTraveled + 500
  /\ UNCHANGED <<hasStarted, rotation, isTeleporting, frame>>
  /\ UNCHANGED <<terrainVars, ringVars, callVars, pureVars, inventoryVars>>

\* handleTeleport(loc): returns at once while teleporting; starts the
\* animation unless the target is the current position
handleTeleport(loc) ==
  /\ hasStarted
  /\ ~isTeleporting
  /\ op' = "handleTeleport"
  /\ IF DLt(hexDistance(playerPos, loc), DLit(1, 10))
     THEN UNCHANGED <<isTeleporting, frame>>
     ELSE /\ isTeleporting' = TRUE
          /\ frame' = <<[startPos |-> playerPos, endPos |-> loc,
                         duration |->
                           TeleportDuration(hexDistance(playerPos, loc)),
                         elapsed |-> 0]>>
  /\ UNCHANGED <<hasStarted, playerPos, rotation, metersTraveled>>
  /\ UNCHANGED <<terrainVars, ringVars, callVars, pureVars, inventoryVars>>

\* the callback animate, t milliseconds after the frame before
animate(t) ==
  /\ frame # <<>>
  /\ op' = "animate"
  /\ IF DLt(Progress(frame[1].elapsed + t, frame[1].duration), D1)
     THEN /\ playerPos' =
               AnimatedPos(frame[1].startPos, frame[1].endPos,
                           easeInOutCubic(Progress(frame[1].elapsed + t,
                                                   frame[1].duration)))
          /\ frame' = <<[frame[1] EXCEPT !.elapsed = @ + t]>>
          /\ UNCHANGED isTeleporting
     ELSE /\ playerPos' = frame[1].endPos
          /\ isTeleporting' = FALSE
          /\ frame' = <<>>
  /\ UNCHANGED <<hasStarted, rotation, metersTraveled>>
  /\ UNCHANGED <<terrainVars, ringVars, callVars, pureVars, inventoryVars>>

(***************************************************************************)
(* SpecMove: one keyboard move from a started game, for every direction    *)
(* and every rotation in degrees.                                          *)
(***************************************************************************)
InitMove ==
  /\ op = "init"
  /\ TerrainIdle
  /\ RingIdle
  /\ CallsIdle
  /\ PureIdle
  /\ InventoryIdle
  /\ hasStarted = TRUE
  /\ playerPos \in StartPositions
  /\ rotation \in -AngleRange..AngleRange
  /\ metersTraveled = 500 * (MaxMoves - 1)
  /\ isTeleporting = FALSE
  /\ frame = <<>>

NextMove == \E i \in 1..Len(HEX_DIRECTIONS) : movePlayer(HEX_DIRECTIONS[i])

SpecMove == InitMove /\ [][NextMove]_vars

(***************************************************************************)
(* SpecTeleport: start, rotate, move and teleport.                         *)
(***************************************************************************)
InitTeleport ==
  /\ op = "init"
  /\ TerrainIdle
  /\ RingIdle
  /\ CallsIdle
  /\ PureIdle
  /\ AppIdle

NextTeleport ==
  \/ \E pos \in StartPositions : handleStart(pos)
  \/ \E delta \in {60, -60} : rotateMap(delta)
  \/ \E i \in 1..Len(HEX_DIRECTIONS) : movePlayer(HEX_DIRECTIONS[i])
  \/ \E loc \in TeleportTargets : handleTeleport(loc)
  \/ \E t \in FrameTimes : animate(t)

SpecTeleport == InitTeleport /\ [][NextTeleport]_vars

(***************************************************************************)
(* SpecStart: getStartPositionFromSeed on every seed of StartSeeds.        *)
(***************************************************************************)
InitStart ==
  /\ op = "init"
  /\ AppIdle
  /\ TerrainIdle
  /\ RingIdle
  /\ CallsIdle
  /\ args \in StartSeeds
  /\ result = <<>>

CallGetStartPositionFromSeed ==
  /\ op = "init"
  /\ op' = "getStartPositionFromSeed"
  /\ result' = getStartPositionFromSeed(args)
  /\ UNCHANGED <<appVars, terrainVars, ringVars, callVars, args>>

NextStart == CallGetStartPositionFromSeed

SpecStart == InitStart /\ [][NextStart]_vars

(***************************************************************************)
(* SpecRound: hexRound on fractional and on integer coordinates.           *)
(***************************************************************************)
InitRound ==
  /\ op = "init"
  /\ AppIdle
  /\ TerrainIdle
  /\ RingIdle
  /\ CallsIdle
  /\ args \in RoundInputs
  /\ result = <<>>

CallHexRound ==
  /\ op = "init"
  /\ op' = "hexRound"
  /\ result' = hexRound(args.h)
  /\ UNCHANGED <<appVars, terrainVars, ringVars, callVars, args>>

NextRound == CallHexRound

SpecRound == InitRound /\ [][NextRound]_vars

(***************************************************************************)
(* Properties.                                                             *)
(***************************************************************************)
\* C1: getTerrain, getElevation and getHexResources are functions of their
\* arguments only: two calls of the same function with identical arguments
\* return identical results whatever calls were made before or between
\* them, and no call changes the resource table it was handed.
C1_Deterministic ==
  /\ \A i, j \in 1..Len(calls) :
       (calls[i].fn = calls[j].fn /\ calls[i].args = calls[j].args)
         => calls[i].result = calls[j].result
  /\ resourceData = ResourceTable

\* getHexResources is called twice with custom resources on a hex that has
\* vegetation, with a terrain query under another seed in between
C1_Witness ==
  /\ Len(calls) = 3
  /\ calls[1].fn = "getHexResources"
  /\ calls[1].args.custom = CustomResources
  /\ "cactus" \in {calls[1].result.vegetation[k] :
                     k \in 1..Len(calls[1].result.vegetation)}
  /\ calls[2].fn = "getElevation"
  /\ calls[2].args.seed # calls[1].args.seed
  /\ calls[3] = calls[1]

Queried == op = "query"

\* C11: for all integer hex coordinates a, b, c, hexDistance(a, b) =
\* hexDistance(b, a) and hexDistance(a, c) <= hexDistance(a, b) +
\* hexDistance(b, c).
C11_DistanceMetric ==
  op = "hexDistance" =>
    /\ DEq(result.ab, result.ba)
    /\ DLe(result.ac, DAdd(result.ab, result.bc))

\* the vector has come back after six rotations; a coordinate 0 may have
\* come back as -0
RotatedBack == DEq(result.v.q, args.v.q) /\ DEq(result.v.r, args.v.r)

\* C12 as stated: for every integer vector (dq, dr), six applications of
\* rotateMoveVector with angle 60 return exactly (dq, dr).
C12_RotationClosure ==
  (op = "rotateMoveVector" /\ result.n = 6 /\ args.rotationDeg = 60)
    => RotatedBack

\* C12, amended: for every integer vector with |dq| + |dr| <= 2^53 - 1, six
\* applications of rotateMoveVector with angle 60 return (dq, dr).
C12_RotationClosureExact ==
  ( /\ op = "rotateMoveVector" /\ result.n = 6 /\ args.rotationDeg = 60
    /\ DLe(DAdd(DAbs(args.v.q), DAbs(args.v.r)), MaxSafeInteger) )
    => RotatedBack

\* a vector of two different non-zero coordinates has made the full turn
C12_Witness ==
  /\ op = "rotateMoveVector" /\ result.n = 6 /\ args.rotationDeg = 60
  /\ args.v = HexOf(2, -1)
  /\ result.v = args.v

\* C2: for non-negative integer weights with a non-zero sum, the cutoffs of
\* calculateThresholds satisfy
\* 0 <= deepWater <= water <= sand <= mountainStart <= snowStart <= 1.
C2_ThresholdsMonotone ==
  (op = "thresholds" /\ WeightTotal(weights) # 0) =>
    /\ DLe(D0, thresholds.deepWater)
    /\ DLe(thresholds.deepWater, thresholds.water)
    /\ DLe(thresholds.water, thresholds.sand)
    /\ DLe(thresholds.sand, thresholds.mountainStart)
    /\ DLe(thresholds.mountainStart, thresholds.snowStart)
    /\ DLe(thresholds.snowStart, D1)

\* C3: for a sea level in (0, 1), getElevation returns 0 or a value within
\* rounding of 0 (at most one metre off) both at a height equal to the
\* water threshold (land branch) and at the height next below it
\* (underwater branch).
C3_ElevationContinuous ==
  ( /\ Queried
    /\ DGt(thresholds.water, D0) /\ DLt(thresholds.water, D1)
    /\ data.height \in {thresholds.water, DPred(thresholds.water)} )
  => DLe(DAbs(elevation), D1)

\* C4: with DEEP_WATER = 1 and every other weight 0, getTerrain returns
\* DEEP_WATER whatever the noise channels of the hex are.
C4_DeepWaterOnly ==
  (Queried /\ weights = Weights(1, 0, 0, 0, 0, 0, 0)) => terrain = "DEEP_WATER"

\* C5: getTerrain classifies the sample by first match: river -> WATER;
\* height < deepWater -> DEEP_WATER; height < water -> WATER; height < sand
\* -> SAND; height > mountainStart -> SNOW if height > snowStart, else
\* MOUNTAIN; otherwise moisture < 0.35 -> SAND, moisture > 0.65 -> FOREST,
\* else FOREST if height > 0.8 * mountainStart and GRASS if not.  Every
\* sample gets one of the seven terrain types.
C5_FirstMatch ==
  Queried =>
    /\ terrain \in TerrainType
    /\ data.isRiver => terrain = "WATER"
    /\ (~data.isRiver /\ DLt(data.height, thresholds.deepWater))
         => terrain = "DEEP_WATER"
    /\ ( /\ ~data.isRiver
         /\ ~DLt(data.height, thresholds.deepWater)
         /\ DLt(data.height, thresholds.water) ) => terrain = "WATER"
    /\ ( /\ ~data.isRiver
         /\ ~DLt(data.height, thresholds.deepWater)
         /\ ~DLt(data.height, thresholds.water)
         /\ DLt(data.height, thresholds.sand) ) => terrain = "SAND"
    /\ ( /\ ~data.isRiver
         /\ ~DLt(data.height, thresholds.deepWater)
         /\ ~DLt(data.height, thresholds.water)
         /\ ~DLt(data.height, thresholds.sand)
         /\ DGt(data.height, thresholds.mountainStart) )
         => terrain = IF DGt(data.height, thresholds.snowStart)
                      THEN "SNOW" ELSE "MOUNTAIN"
    /\ ( /\ ~data.isRiver
         /\ ~DLt(data.height, thresholds.deepWater)
         /\ ~DLt(data.height, thresholds.water)
         /\ ~DLt(data.height, thresholds.sand)
         /\ ~DGt(data.height, thresholds.mountainStart) )
         => terrain =
              IF DLt(data.moisture, DLit(35, 100)) THEN "SAND"
              ELSE IF DGt(data.moisture, DLit(65, 100)) THEN "FOREST"
              ELSE IF DGt(data.height,
                          DMul(thresholds.mountainStart, DLit(8, 10)))
              THEN "FOREST"
              ELSE "GRASS"

\* a sample that reaches the last rule of the list: mid altitude, moisture
\* in the transition band, classified by its height
C5_Witness ==
  /\ Queried
  /\ ~data.isRiver
  /\ ~DLt(data.height, thresholds.sand)
  /\ ~DGt(data.height, thresholds.mountainStart)
  /\ ~DLt(data.moisture, DLit(35, 100))
  /\ ~DGt(data.moisture, DLit(65, 100))
  /\ terrain = "FOREST"

\* C6: for weights summing to zero calculateThresholds returns the fixed
\* set (0.3, 0.4, 0.45, 0.85, 0.92, moistureBias 0); for all non-negative
\* weights no division by zero occurs (every value returned is finite), and
\* moistureBias is 0 when the sand, grass and forest weights are all 0.
C6_NoDivisionByZero ==
  op = "thresholds" =>
    /\ \A f \in DOMAIN thresholds : DIsFinite(thresholds[f])
    /\ WeightTotal(weights) = 0 =>
         thresholds = [deepWater |-> DLit(3, 10), water |-> DLit(4, 10),
                       sand |-> DLit(45, 100), mountainStart |-> DLit(85, 100),
                       snowStart |-> DLit(92, 100), moistureBias |-> D0]
    /\ weights.SAND + weights.GRASS + weights.FOREST = 0 =>
         thresholds.moistureBias = D0

\* the thresholds of the all-zero weights have been computed
C6_Witness ==
  /\ op = "thresholds"
  /\ WeightTotal(weights) = 0
  /\ thresholds.water = DLit(4, 10)

\* C7: the sample returned by getTerrainData has height and moisture in
\* [0, 1], also after river carving and island promotion.
C7_SampleInRange ==
  Queried => In01(data.height) /\ In01(data.moisture)

\* C8: when the water threshold is exactly 0, getElevation returns 0 for a
\* sample whose height is below it.
C8_ZeroSeaLevel ==
  (Queried /\ DEq(thresholds.water, D0) /\ DLt(data.height, thresholds.water))
    => elevation = D0

\* a river hex carved below a sea level of 0
C8_Witness ==
  /\ Queried
  /\ DEq(thresholds.water, D0)
  /\ DLt(data.height, thresholds.water)
  /\ data.isRiver
  /\ elevation = D0

\* C9: in an all-water configuration (1 - water threshold <= 0.001),
\* getElevation returns 0 for a sample whose height is at or above the
\* water threshold.
C9_AllWater ==
  ( /\ Queried
    /\ DLe(DSub(D1, thresholds.water), DLit(1, 1000))
    /\ ~DLt(data.height, thresholds.water) )
  => elevation = D0

\* a land query in a world whose land range is positive but below 0.001
C9_Witness ==
  /\ Queried
  /\ DLe(DSub(D1, thresholds.water), DLit(1, 1000))
  /\ DLt(thresholds.water, D1)
  /\ DGt(data.height, thresholds.water)
  /\ elevation = D0

\* C10: getHexRing(center, r) has 3 * r * (r + 1) + 1 coordinates, and
\* getHexRing(center, 0) is the list of center alone.
C10_RingSize ==
  op = "ring" =>
    /\ Len(ring) = 3 * radius * (radius + 1) + 1
    /\ radius = 0 => ring = <<center>>

\* the ring of radius 2 around a centre off the origin
C10_Witness ==
  /\ op = "ring"
  /\ radius = 2
  /\ center = HexOf(1, -2)
  /\ Len(ring) = 19

\* getHexResources has returned for the call in args
Returned == op = "getHexResources"

\* the candidate list of a category for the call in args: the list of the
\* table followed by the custom list, empty when the terrain has no entry
Candidates(category) ==
  IF args.terrain \in DOMAIN ResourceTable
  THEN ResourceTable[args.terrain][category] \o args.custom[category]
  ELSE <<>>

\* the roll of a context for the call in args
Roll(context) == getDeterministicRandom(args.q, args.r, args.seed, context)

\* Math.floor(roll * m) + 1 for the roll of a context
CountOf(context, m) == RollIndex(args.q, args.r, args.seed, context, m) + 1

\* the count of rare stones: 2 when the second roll exceeds 0.8, otherwise 1
RareCount == IF DGt(Roll(Context.rare_count), DLit(8, 10)) THEN 2 ELSE 1

\* picks has min(count, Len(list)) entries when the density roll is below
\* the probability, and none otherwise
PickCount(picks, density, probability, count, list) ==
  IF DLt(Roll(density), probability)
  THEN Len(picks) = Min(count, Len(list))
  ELSE picks = <<>>

\* C13: each category of getHexResources has no picks when its density roll
\* is not below its probability (0.85 vegetation, 0.15 animals, 0.20
\* minerals, 0.02 rare stones); otherwise it has min(count, length of the
\* candidate list) picks, with a count in 1..4 for vegetation, 1..3 for
\* animals, 1..2 for minerals, and 1 for rare stones except 2 when the
\* second roll exceeds 0.8.
C13_PickCounts ==
  Returned =>
    /\ CountOf(Context.veg_count, 4) \in 1..4
    /\ CountOf(Context.anim_count, 3) \in 1..3
    /\ CountOf(Context.min_count, 2) \in 1..2
    /\ PickCount(result.resources.vegetation, Context.veg_density,
                 DLit(85, 100), CountOf(Context.veg_count, 4),
                 Candidates("vegetation"))
    /\ PickCount(result.resources.animals, Context.anim_density,
                 DLit(15, 100), CountOf(Context.anim_count, 3),
                 Candidates("animals"))
    /\ PickCount(result.resources.minerals, Context.min_density,
                 DLit(20, 100), CountOf(Context.min_count, 2),
                 Candidates("mineral_resources"))
    /\ PickCount(result.resources.rareStones, Context.rare_density,
                 DLit(2, 100), RareCount, Candidates("rare_stones"))

\* two rare stones at (-4, -4) of seed "A", fewer vegetation picks than
\* candidates, and a category whose density roll failed
C13_Witness ==
  /\ Returned
  /\ args.q = -4 /\ args.r = -4 /\ args.seed = SeedA
  /\ args.terrain = "GRASS"
  /\ RareCount = 2
  /\ Len(result.resources.rareStones) = 2
  /\ Len(result.resources.vegetation) \in 1..(Len(Candidates("vegetation")) - 1)
  /\ \/ ~DLt(Roll(Context.anim_density), DLit(15, 100))
     \/ ~DLt(Roll(Context.min_density), DLit(20, 100))

\* the field of the result that holds the picks of a category
ResultField ==
  [animals |-> "animals", vegetation |-> "vegetation",
   mineral_resources |-> "minerals", rare_stones |-> "rareStones"]

\* C14: a category whose candidate list is empty has the empty list in the
\* result of getHexResources, and a terrain without an entry in the table
\* has it in all four categories, whatever the rolls are; the call returns
\* a result and raises no error.
C14_EmptyCandidates ==
  Returned =>
    /\ DOMAIN result.resources
         = {"animals", "minerals", "rareStones", "vegetation", "droppedItems"}
    /\ \A category \in DOMAIN ResultField :
         Candidates(category) = <<>>
           => result.resources[ResultField[category]] = <<>>
    /\ args.terrain \notin DOMAIN ResourceTable
         => result.resources = NoResources

\* SAND without custom resources has no vegetation to pick from although the
\* density roll succeeded
C14_Witness ==
  /\ Returned
  /\ args.terrain = "SAND" /\ args.custom = NoCustom
  /\ Candidates("vegetation") = <<>>
  /\ DLt(Roll(Context.veg_density), DLit(85, 100))
  /\ result.resources.vegetation = <<>>

\* the entries of a list
Range(list) == { list[i] : i \in 1..Len(list) }

\* the salt of the shuffle of a category
ShuffleSalt ==
  [animals |-> Context.anim_shuffle, vegetation |-> Context.veg_shuffle,
   mineral_resources |-> Context.min_shuffle,
   rare_stones |-> Context.rare_shuffle]

\* the picks of a category for the call in args when list is its candidate
\* list
PicksFrom(category, list) ==
  CASE category = "animals" -> Animals(list, args.q, args.r, args.seed)
    [] category = "vegetation" -> Vegetation(list, args.q, args.r, args.seed)
    [] category = "mineral_resources"
         -> Minerals(list, args.q, args.r, args.seed)
    [] category = "rare_stones" -> RareStones(list, args.q, args.r, args.seed)

\* the result of the call in args for the table alone
BaseAlone ==
  IF args.terrain \in DOMAIN ResourceTable
  THEN [animals |-> PicksFrom("animals", ResourceTable[args.terrain].animals),
        minerals |->
          PicksFrom("mineral_resources",
                    ResourceTable[args.terrain].mineral_resources),
        rareStones |->
          PicksFrom("rare_stones", ResourceTable[args.terrain].rare_stones),
        vegetation |->
          PicksFrom("vegetation", ResourceTable[args.terrain].vegetation),
        droppedItems |-> <<>>]
  ELSE NoResources

\* C15: with custom resources the candidate list of a category is the list
\* of the table followed by the custom list: every pick is an entry of that
\* concatenation, the picks are the leading entries of its shuffle, and
\* without custom entries (no globalBiomeConfig, or empty custom lists) the
\* result is the result for the table alone.
C15_CustomAppended ==
  Returned =>
    /\ \A category \in DOMAIN ResultField :
         /\ Range(result.resources[ResultField[category]])
              \subseteq Range(Candidates(category))
         /\ result.resources[ResultField[category]]
              = SubSeq(shuffleDeterministic(Candidates(category), args.q,
                                            args.r, args.seed,
                                            ShuffleSalt[category]),
                       1, Len(result.resources[ResultField[category]]))
         /\ args.custom[category] = <<>>
              => result.resources[ResultField[category]]
                   = PicksFrom(category, Candidates(category))
    /\ args.custom = NoCustom => result.resources = BaseAlone

\* SAND has no vegetation of its own and the pick is the custom cactus
C15_Witness ==
  /\ Returned
  /\ args.terrain = "SAND" /\ args.custom = CustomResources
  /\ ResourceTable.SAND.vegetation = <<>>
  /\ result.resources.vegetation = <<"cactus">>

\* C16: getHexResources changes neither the resource table it is handed nor
\* the lists of globalBiomeConfig.customResources.
C16_InputsUnchanged ==
  Returned =>
    /\ resourceData = ResourceTable
    /\ result.customResources = args.custom

\* a call that merged custom entries into the candidates and picked one
C16_Witness ==
  /\ Returned
  /\ args.terrain = "GRASS" /\ args.custom = CustomResources
  /\ "cactus" \in Range(result.resources.vegetation)
  /\ resourceData.GRASS.vegetation = <<"oak", "fern", "moss">>
  /\ result.customResources.vegetation = <<"cactus">>

\* the calls of getDeterministicRandom made so far
Rolled == IF op = "getDeterministicRandom" THEN result ELSE <<>>

\* C17: for every input the value h of hash128 is a non-negative integer
\* below 2^53 and getDeterministicRandom returns v with 0 <= v < 1, and
\* calls with identical inputs return the identical v.
C17_UnitInterval ==
  \A i, j \in 1..Len(Rolled) :
    /\ \A d \in 1..3 : Rolled[i].h[d] \in 0..65535
    /\ Rolled[i].h[4] \in 0..31
    /\ DLe(D0, Rolled[i].v)
    /\ DLt(Rolled[i].v, D1)
    /\ Rolled[i].v = Rolled[j].v

\* two calls for the vegetation density of hex (0, 0) of seed "A" with a
\* value strictly between 0 and 1
C17_Witness ==
  /\ Len(Rolled) = 2
  /\ args = [q |-> 0, r |-> 0, seed |-> SeedA, context |-> Context.veg_density]
  /\ DGt(Rolled[1].v, D0)
  /\ DLt(Rolled[2].v, D1)

RECURSIVE CountIn(_, _)
CountIn(list, x) ==
  IF list = <<>> THEN 0
  ELSE (IF Head(list) = x THEN 1 ELSE 0) + CountIn(Tail(list), x)

\* a and b hold the same entries the same number of times
IsPermutation(a, b) ==
  /\ Len(a) = Len(b)
  /\ \A x \in Range(a) \cup Range(b) : CountIn(a, x) = CountIn(b, x)

\* the loop of shuffleDeterministic has exited
ShuffleDone == result.m = 0

\* the steps made so far are those of a Fisher-Yates shuffle of args.array
ShuffleSteps ==
  /\ result.m \in 0..Len(args.array)
  /\ Len(result.draws) = Len(args.array) - result.m
  /\ \A k \in 1..Len(result.draws) :
       /\ result.draws[k].m = Len(args.array) - k + 1
       /\ result.draws[k].context
            = args.salt \o <<95>> \o IntToStr(result.draws[k].m)
       /\ result.draws[k].i \in 0..(result.draws[k].m - 1)
  /\ IsPermutation(result.copy, args.array)
  /\ ShuffleLoop(result.copy, result.m, args.q, args.r, args.seed, args.salt)
       = shuffleDeterministic(args.array, args.q, args.r, args.seed,
                              args.salt)

\* a step is made only while m is not 0 and lowers m by one; it exchanges
\* the entries at positions m - 1 and i, counted from 0, and leaves the
\* others
ShuffleSwaps ==
  /\ result.m > 0
  /\ result'.m = result.m - 1
  /\ \A p \in 1..Len(result.copy) :
       result'.copy[p] =
         IF p = result.m
         THEN result.copy[result'.draws[Len(result'.draws)].i + 1]
         ELSE IF p = result'.draws[Len(result'.draws)].i + 1
              THEN result.copy[result.m]
              ELSE result.copy[p]

\* C19: shuffleDeterministic is a Fisher-Yates shuffle: for an array of n
\* entries it makes n steps m = n, n - 1, ..., 1; step m draws with the
\* context salt_m an index i with 0 <= i <= m - 1 and exchanges the entries
\* at positions m - 1 and i; the loop terminates (m is a natural number
\* that every step lowers by one, and the loop exits at 0, after n steps)
\* and the array returned is a permutation of the input.
C19_FisherYates ==
  /\ []ShuffleSteps
  /\ [][ShuffleSwaps]_vars

\* a finished shuffle of four entries that moved every one of them
C19_Witness ==
  /\ op = "shuffleDeterministic"
  /\ ShuffleDone
  /\ Len(args.array) = 4
  /\ Len(result.draws) = 4
  /\ IsPermutation(result.copy, args.array)
  /\ \A p \in 1..4 : result.copy[p] # args.array[p]

\* the picks of a category in the result of the call in args
PicksOf(category) == result.resources[ResultField[category]]

\* the positions 1 .. n in order
RECURSIVE Positions(_)
Positions(n) == IF n = 0 THEN <<>> ELSE Append(Positions(n - 1), n)

\* the positions of the candidate list of a category, counted from 1, that
\* its picks are taken from: the shuffle moves positions whatever they hold
PickPositions(category) ==
  SubSeq(shuffleDeterministic(Positions(Len(Candidates(category))),
                              args.q, args.r, args.seed,
                              ShuffleSalt[category]),
         1, Len(PicksOf(category)))

\* C20: the picks of one category of getHexResources come from pairwise
\* distinct positions of its candidate list: no position is picked twice,
\* so an entry is picked at most as often as the list holds it.
C20_DistinctPositions ==
  Returned =>
    \A category \in DOMAIN ResultField :
      /\ Len(PicksOf(category)) <= Len(Candidates(category))
      /\ \A j, k \in 1..Len(PicksOf(category)) :
           /\ PicksOf(category)[k]
                = Candidates(category)[PickPositions(category)[k]]
           /\ j # k
                => PickPositions(category)[j] # PickPositions(category)[k]
      /\ \A x \in Range(PicksOf(category)) :
           CountIn(PicksOf(category), x) <= CountIn(Candidates(category), x)

\* both positions that hold "oak" picked among the vegetation of GRASS
C20_Witness ==
  /\ Returned
  /\ args.terrain = "GRASS" /\ args.custom = CustomDuplicates
  /\ CountIn(Candidates("vegetation"), "oak") = 2
  /\ CountIn(PicksOf("vegetation"), "oak") = 2
  /\ Len(PicksOf("vegetation")) < Len(Candidates("vegetation"))

\* the coordinates around center, up to one step beyond the radius
RingBox ==
  { [q |-> DAdd(center.q, DFromInt(i)), r |-> DAdd(center.r, DFromInt(j))] :
      i \in -(radius + 1)..(radius + 1), j \in -(radius + 1)..(radius + 1) }

\* the ring is the filled disk around center and lists no coordinate twice
FilledDisk ==
  /\ \A h \in RingBox \cup Range(ring) :
       h \in Range(ring) <=> DLe(hexDistance(center, h), DFromInt(radius))
  /\ \A i, j \in 1..Len(ring) : i # j => ring[i] # ring[j]

\* C21: a coordinate h is in getHexRing(center, radius) if and only if
\* hexDistance(center, h) <= radius, and no coordinate appears twice.
C21_FilledDisk == op = "ring" => FilledDisk

\* the same for the centres whose coordinates, with the radius added, stay
\* safe integers: |center.q| + |center.r| + 2 * radius + 2 <= 2^53 - 1
FilledDiskSafe ==
  ( /\ op = "ring"
    /\ DLe(DAdd(DAdd(DAbs(center.q), DAbs(center.r)),
                 DFromInt(2 * radius + 2)),
            MaxSafeInteger) )
  => FilledDisk

\* the disk of radius 2 around (1, -2): (3, -4) is in it, (3, -1) of the
\* box around it is not
FilledDiskSeen ==
  /\ op = "ring"
  /\ radius = 2
  /\ center = HexOf(1, -2)
  /\ HexOf(3, -4) \in Range(ring)
  /\ HexOf(3, -1) \in RingBox \ Range(ring)

\* C22: a hex is a river exactly when its base height lies strictly between
\* the water threshold and mountainStart and |riverNoise - 0.5| < 0.025; the
\* sample of a river hex has the height water - 0.02, and getTerrain returns
\* WATER for it.
C22_RiverCarved ==
  Queried =>
    /\ data.isRiver
         <=> /\ DGt(noise.height, thresholds.water)
             /\ DLt(noise.height, thresholds.mountainStart)
             /\ DLt(DAbs(DSub(noise.river, DLit(5, 10))), DLit(25, 1000))
    /\ data.isRiver
         => /\ data.height = DSub(thresholds.water, DLit(2, 100))
            /\ terrain = "WATER"

\* C23: getGlobalBiome returns one of the 7 entries of GLOBAL_BIOMES_DATA,
\* never undefined, for every sample and thresholds, also when mountainStart
\* = water makes the relative height 0 / 0; the entry is a function of the
\* sample alone.
C23_BiomeTotal ==
  Queried =>
    /\ biome \in Range(GLOBAL_BIOMES_DATA)
    /\ Cardinality(Range(GLOBAL_BIOMES_DATA)) = 7
    /\ biome = GlobalBiomeOf(data.height, data.moisture, data.isRiver,
                             data.thresholds)

\* a sample on land of a configuration with mountainStart = water: the
\* relative height is NaN and the hex is classified by moisture as not hot
C23_Witness ==
  /\ Queried
  /\ DEq(thresholds.mountainStart, thresholds.water)
  /\ ~data.isRiver
  /\ DEq(data.height, thresholds.water)
  /\ DIsNaN(RelativeHeight(data.height, thresholds))
  /\ biome = "taiga"

\* |n|
Abs(n) == IF n < 0 THEN -n ELSE n

\* the integer held by a Number of either sign
SignedInt(x) == IF x.neg THEN -DToInt(DAbs(x)) ELSE DToInt(x)

\* i / RoundSteps rounded to the nearest integer, a tie going up
RoundedStep(i) == (2 * i + RoundSteps) \div (2 * RoundSteps)

\* RoundSteps times the cube distance between (i, j) / RoundSteps and the
\* integer hex (q, r)
StepDistance(i, j, q, r) ==
  Max(Max(Abs(RoundSteps * q - i), Abs(RoundSteps * r - j)),
      Abs(RoundSteps * (-q - r) + i + j))

\* RoundSteps times the rounding errors of the three cube components
ErrorQ(i) == Abs(RoundSteps * RoundedStep(i) - i)

ErrorS(i, j) == Abs(RoundSteps * RoundedStep(-i - j) + i + j)

\* the hex (q, r) keeps two of the independently rounded components of
\* (i, j) / RoundSteps and recomputes one whose rounding error is largest
OneRecomputed(i, j, q, r) ==
  \/ /\ q = RoundedStep(i) /\ r = RoundedStep(j)
     /\ ErrorS(i, j) >= ErrorQ(i) /\ ErrorS(i, j) >= ErrorQ(j)
  \/ /\ r = RoundedStep(j) /\ q = -r - RoundedStep(-i - j)
     /\ ErrorQ(i) >= ErrorQ(j) /\ ErrorQ(i) >= ErrorS(i, j)
  \/ /\ q = RoundedStep(i) /\ r = -q - RoundedStep(-i - j)
     /\ ErrorQ(j) >= ErrorQ(i) /\ ErrorQ(j) >= ErrorS(i, j)

\* C24: hexRound returns integer coordinates unchanged; for a fractional
\* input it returns the integer hex nearest to it in cube coordinates
\* (q, r, s = -q - r): the three components are rounded independently and
\* only a component with the largest rounding error is recomputed from the
\* other two.
C24_NearestHex ==
  op = "hexRound" =>
    /\ (DEq(DFloor(args.h.q), args.h.q) /\ DEq(DFloor(args.h.r), args.h.r))
         => (DEq(result.q, args.h.q) /\ DEq(result.r, args.h.r))
    /\ args.fine =>
         /\ \A q, r \in -RoundRange..RoundRange :
              StepDistance(args.i, args.j, SignedInt(result.q),
                           SignedInt(result.r))
                <= StepDistance(args.i, args.j, q, r)
         /\ OneRecomputed(args.i, args.j, SignedInt(result.q),
                          SignedInt(result.r))

\* (1/2, 1/2) rounds to (1, 1, -1) independently; q and r are equally far
\* off, further than s, and r is the one recomputed: the result is (1, 0)
C24_Witness ==
  /\ op = "hexRound"
  /\ args.fine /\ args.i = 2 /\ args.j = 2
  /\ RoundedStep(2) + RoundedStep(2) + RoundedStep(-4) # 0
  /\ result = HexOf(1, 0)

\* getTerrain returned one of the two water terrains
IsWater == terrain \in {"WATER", "DEEP_WATER"}

\* C25: whenever getTerrain returns WATER or DEEP_WATER for a hex, river
\* hexes included, getElevation of that hex is not positive.
C25_WaterNotAboveSea == (Queried /\ IsWater) => DLe(elevation, D0)

\* C26: getGlobalBiome returns the wetlands entry exactly when getTerrain
\* returns WATER or DEEP_WATER.
C26_WetlandsIffWater == Queried => (biome = "wetlands" <=> IsWater)

\* a river hex that the island step raised to the sand threshold: WATER by
\* its river flag, wetlands by the same flag, its height not under water
C26_Witness ==
  /\ Queried
  /\ data.isRiver
  /\ DGe(data.height, thresholds.water)
  /\ terrain = "WATER"
  /\ biome = "wetlands"

\* the items held by the slots of the inventory
RECURSIVE HeldFrom(_, _)
HeldFrom(inv, i) ==
  IF i > Len(inv) THEN {}
  ELSE (Range(inv[i].slots) \ {Null}) \cup HeldFrom(inv, i + 1)

Held(inv) == HeldFrom(inv, 1)

\* a step of handleReturnFromCrafting(index) leaves the item of the slot in
\* the inventory, or, the inventory being full, in its crafting slot
ReturnKeeps(index) ==
  handleReturnFromCrafting(index) =>
    \/ craftingSlots[index + 1] \in Held(inventory')
    \/ /\ FirstFree(inventory) = <<>>
       /\ craftingSlots'[index + 1] = craftingSlots[index + 1]

\* C27: no item is lost when leaving the crafting table: after any sequence
\* of collect, drop, add-to-crafting and return-from-crafting steps, the
\* item that handleReturnFromCrafting takes out of a crafting slot is in an
\* inventory slot afterwards; with a full inventory it stays in its crafting
\* slot.
C27_NoItemLost ==
  [][\A index \in 0..(CraftingCount - 1) : ReturnKeeps(index)]_vars

\* v is one of the six HEX_DIRECTIONS
IsDirection(v) ==
  \E i \in 1..Len(HEX_DIRECTIONS) :
    DEq(v.q, HEX_DIRECTIONS[i].q) /\ DEq(v.r, HEX_DIRECTIONS[i].r)

\* a step of movePlayer(d) adds rotateMoveVector of d, one of the six
\* HEX_DIRECTIONS, to the position, which ends at distance 1
UnitMove(d) ==
  movePlayer(d) =>
    /\ IsDirection(rotateMoveVector(d.q, d.r, rotation))
    /\ DEq(DSub(playerPos'.q, playerPos.q),
           rotateMoveVector(d.q, d.r, rotation).q)
    /\ DEq(DSub(playerPos'.r, playerPos.r),
           rotateMoveVector(d.q, d.r, rotation).r)
    /\ DEq(hexDistance(playerPos, playerPos'), D1)
    /\ DEq(hexDistance(playerPos', playerPos), D1)

OnlyAnimateMoves ==
  (isTeleporting /\ playerPos' # playerPos) => op' = "animate"

\* the step that ends the animation puts the player on the target and
\* clears isTeleporting
EndsOnTarget ==
  (isTeleporting /\ ~isTeleporting') =>
    /\ playerPos' = frame[1].endPos
    /\ playerPos' \in TeleportTargets
    /\ frame' = <<>>

\* handleTeleport to the current position leaves isTeleporting false
StartsElsewhere ==
  \A loc \in TeleportTargets :
    (handleTeleport(loc) /\ playerPos = loc) => ~isTeleporting'

\* isTeleporting is true exactly while a callback of animate is pending;
\* each callback that does not end the animation adds the time since the
\* frame before to elapsed, which stays under the 3000 ms that bound the
\* duration: the pending callbacks of one teleport are finitely many
AnimationEnds ==
  /\ isTeleporting' <=> frame' # <<>>
  /\ (frame # <<>> /\ frame' # frame) => op' = "animate"
  /\ (frame # <<>> /\ frame' # <<>> /\ frame' # frame) =>
       /\ frame'[1].elapsed > frame[1].elapsed
       /\ frame'[1].elapsed < 3000
       /\ DLe(frame'[1].duration, DFromInt(3000))
       /\ frame'[1].endPos = frame[1].endPos

C30_StartInRange ==
  op = "getStartPositionFromSeed" =>
    /\ result.q \in -10000..9999
    /\ result.r \in -10000..9999

\* q is in [-10000, 9999] for every seed, and r in [-29999, 9999]
StartPositionBounds ==
  op = "getStartPositionFromSeed" =>
    /\ result.q \in -10000..9999
    /\ result.r \in -29999..9999
=============================================================================
